---- MODULE Spec2Model ----
(***************************************************************************)
(* AgentPages (src/AgentPages.js, v0.5.0): the sanitizing render pipeline. *)
(*                                                                         *)
(* The specifications share the variables below:                           *)
(*   Spec        one session object: render, setTheme, clear;              *)
(*   SpecAction  one session under each action policy: render, clicks on   *)
(*               the mounted output, clear;                                *)
(*   SpecStream  one streaming render (renderStream / renderStreamNDJSON)  *)
(*               of a serialized page, chunk by chunk;                     *)
(*   SpecUrl     sanitizeUrl applied to one input;                         *)
(*   SpecNorm    _normalizeSections applied to one list of sections;       *)
(*   SpecForm    one rendered form: edits of its controls and submits;     *)
(*   SpecTabs    one rendered tabset: tab clicks, focus and key events;    *)
(*   SpecFaq     one rendered FAQ: clicks on its questions;                *)
(*   SpecBuf     one streaming render of a long text, piece by piece;      *)
(*   SpecDispatch  one session with host registries, one section rendered; *)
(*   SpecName    sanitizeActionName applied to one name;                   *)
(*   SpecStyle   render of pages with a style.background override, clear;  *)
(*   SpecInject  one section with payloads in its text fields, rendered;   *)
(*   SpecSource  one streaming render from a function source;              *)
(*   SpecFrag    the bracket decoder over malformed array fragments;       *)
(*   SpecRemove  render and removeSection;                                 *)
(*   SpecHeading one heading section rendered at a given level;            *)
(*   SpecGap     one stack section rendered with a given gap;              *)
(*   SpecAdd     render, addSection of one section at a time, clear;       *)
(*   SpecCap     render of long lists, stream appends, addSection, clear;  *)
(*   SpecValidate  one rendered form under each validateOn mode: control   *)
(*               events and submits;                                       *)
(*   SpecFaqId   the element ids of one rendered FAQ.                      *)
(*                                                                         *)
(* Text is a sequence of one-character strings, so that trimming, slicing, *)
(* substring search and the decoders' character loops are computed as the  *)
(* code computes them.                                                     *)
(***************************************************************************)
EXTENDS Integers, Sequences, FiniteSets, TLC

VARIABLES
  options,         \* the options object handed to the constructor
  actionPolicy,    \* this.actionPolicy
  allowedActions,  \* this.allowedActions: [given, names]
  onAction,        \* this.onAction is a function (TRUE) or null (FALSE)
  theme,           \* this.theme
  styleEl,         \* identity of the <style> element currently in the document
  nextEl,          \* next fresh element identity
  mounted,         \* children of this.rootContainer, in document order
  sectionCount,    \* this.sectionCount
  lastOp,          \* the last public operation: its name, input and whether it threw
  lastClick,       \* the last click: where, callback invocations, blocked diagnostics
  stream,          \* the source of a streaming render: mode, page, text not yet delivered
  parser,          \* StreamingPageParser / NDJSONSectionParser fields
  pc,              \* position of the streaming call
  origin,          \* window.location.origin: "http", "https", or "null" (opaque)
  urlIn,           \* argument of sanitizeUrl
  urlOut,          \* its result
  widget,          \* the interactive section under test: its data, DOM state and closure
  norm             \* a call of _normalizeSections: its arguments and results

vars == <<options, actionPolicy, allowedActions, onAction, theme, styleEl, nextEl, mounted,
          sectionCount, lastOp, lastClick, stream, parser, pc, origin, urlIn, urlOut,
          widget, norm>>

sessionVars == <<options, actionPolicy, allowedActions, onAction, theme, styleEl, nextEl,
                 mounted, sectionCount, lastOp, lastClick>>
streamVars == <<stream, parser, pc>>
urlVars == <<origin, urlIn, urlOut>>
widgetVars == <<widget>>
normVars == <<norm>>

----------------------------------------------------------------------------
(* Bounds of the model *)

MaxPageLen == 3      \* sections in a page handed to render
MaxStyleEls == 3     \* style elements created in one session
MaxStreamLen == 2    \* sections in a page that is streamed
Over == 1            \* entries or characters by which an input exceeds a limit
MaxNest == 7         \* containers nested in one another in a normalizer input

----------------------------------------------------------------------------
(* SAFETY_LIMITS *)

maxSections == 60
maxDepth == 5
maxItemsPerList == 120
maxRowsPerTable == 200
maxFaqItems == 80
maxTabs == 20
maxFields == 60
maxOptionsPerSelect == 200
maxCharsPerField == 8000
maxActionName == 120
maxUrlLength == 2048

----------------------------------------------------------------------------
(* Text helpers *)

Min(a, b) == IF a < b THEN a ELSE b
Max(a, b) == IF a > b THEN a ELSE b

\* String.prototype.slice(0, n)
Slice(s, n) == SubSeq(s, 1, Min(Len(s), n))

IsSpace(c) == c \in {" ", "\n"}

RECURSIVE TrimLeft(_)
TrimLeft(s) == IF s # <<>> /\ IsSpace(Head(s)) THEN TrimLeft(Tail(s)) ELSE s

RECURSIVE TrimRight(_)
TrimRight(s) ==
  IF s # <<>> /\ IsSpace(s[Len(s)]) THEN TrimRight(SubSeq(s, 1, Len(s) - 1)) ELSE s

\* String.prototype.trim
Trim(s) == TrimRight(TrimLeft(s))

\* the characters the replace() of sanitizeActionName keeps: [a-zA-Z0-9:_\-./]
AlphaNum == {"a", "b", "c", "d", "e", "g", "h", "i", "n", "o", "p", "r", "s", "t",
             "x", "y", "z", "0", "1"}
ActionNameChars == AlphaNum \cup {":", "_", "-", ".", "/"}

sanitizeActionName(name) ==
  LET s == Slice(Trim(name), maxActionName)
  IN  [i \in 1..Len(s) |-> IF s[i] \in ActionNameChars THEN s[i] ELSE "_"]

----------------------------------------------------------------------------
(* sanitizeUrl.  A url value is [kind, pad, len, scheme]: kind "absent"    *)
(* (undefined or ''), "string" or "other" (a truthy non-string); pad the   *)
(* count of leading white space, len the full length, scheme what the URL  *)
(* parser makes of the trimmed text.  The result is an href value          *)
(* [kind, scheme, len] with kind "empty" (''), "hash" ('#') or "url".      *)

Schemes == {"http", "https", "mailto", "tel", "javascript", "data"}

EmptyHref == [kind |-> "empty", scheme |-> "", len |-> 0]
HashHref == [kind |-> "hash", scheme |-> "", len |-> 1]
UrlHref(scheme, len) == [kind |-> "url", scheme |-> scheme, len |-> len]

\* new URL(trimmed, window.location.origin).protocol; "" when the constructor throws.
\* An opaque origin ("null") is no valid base, and an invalid base throws for every input.
ParsedProtocol(u, base) ==
  IF base = "null" THEN ""
  ELSE IF u.scheme \in Schemes THEN u.scheme
  ELSE IF u.scheme = "relative" THEN base
  ELSE ""

allowedProtocols == {"http", "https", "mailto"}

sanitizeUrl(u, base) ==
  IF u.kind # "string" THEN EmptyHref
  ELSE IF u.len - u.pad = 0 THEN EmptyHref
  ELSE IF u.len - u.pad > maxUrlLength THEN EmptyHref
  ELSE LET protocol == ParsedProtocol(u, base)
       IN  IF protocol \notin allowedProtocols THEN EmptyHref
           ELSE UrlHref(protocol, u.len - u.pad)

----------------------------------------------------------------------------
(* Section descriptions.  An entry of a section list is a record           *)
(*   obj        FALSE for null or a primitive, TRUE for an object          *)
(*   type       the type field, "" when missing                            *)
(*   title      a top-level string field: [kind, off, len] with kind       *)
(*              "absent", "string" or "other"; a string is the len         *)
(*              characters from offset off of the text the caller wrote    *)
(*   items, rows, tabs, fields, sections                                   *)
(*              list values [kind, elems]: kind "absent" (missing or       *)
(*              falsy), "notSeq" (a truthy value that is no array) or      *)
(*              "seq"; an element of items, rows, tabs, fields or options  *)
(*              is an entry [kind, sections, options] of kind "obj",       *)
(*              "prim" (a string or number) or "null"; an element of       *)
(*              sections is a section description                          *)
(*   activeIndex  [kind, half]: a number is counted in halves, so that a   *)
(*              fractional index is a value of the model                   *)
(*   cta, primary, secondary   link descriptors [present, text, url,       *)
(*              action]; text says whether .text is truthy, action is the  *)
(*              declared action name (<<>> when missing or '').            *)

NoUrl == [kind |-> "absent", pad |-> 0, len |-> 0, scheme |-> ""]
StrUrl(scheme, len) == [kind |-> "string", pad |-> 0, len |-> len, scheme |-> scheme]
NoLink == [present |-> FALSE, text |-> FALSE, url |-> NoUrl, action |-> <<>>]
Link(url, action) == [present |-> TRUE, text |-> TRUE, url |-> url, action |-> action]
NoItems == [kind |-> "absent", elems |-> <<>>]
Items(elems) == [kind |-> "seq", elems |-> elems]
NoStr == [kind |-> "absent", off |-> 0, len |-> 0]
Str(len) == [kind |-> "string", off |-> 0, len |-> len]
NoNumber == [kind |-> "absent", half |-> 0]
Number(half) == [kind |-> "number", half |-> half]
Entry(kind) == [kind |-> kind, sections |-> NoItems, options |-> NoItems]
ObjItem == Entry("obj")
PrimItem == Entry("prim")
NullItem == Entry("null")
Section(type) ==
  [obj |-> TRUE, type |-> type, title |-> NoStr, items |-> NoItems, rows |-> NoItems,
   tabs |-> NoItems, fields |-> NoItems, sections |-> NoItems, activeIndex |-> NoNumber,
   cta |-> NoLink, primary |-> NoLink, secondary |-> NoLink]
NullEntry == [Section("") EXCEPT !.obj = FALSE]

\* window.location.origin of the page that hosts the sessions of Spec
PageOrigin == "https"

----------------------------------------------------------------------------
(* Output nodes.  A mounted section is [type, els]; els are its elements   *)
(* that matter to a click:                                                 *)
(*   tag, href         the element and its href attribute                  *)
(*   hasAction, action the data-action attribute                           *)
(*   direct            the renderer attached its own click listener that   *)
(*                     calls ctx.onAction                                  *)
(*   wired             click listeners attached by addSection's wiring     *)
(* and kids are the nodes of the sections nested in it.                    *)

NoHref == [kind |-> "none", scheme |-> "", len |-> 0]

Element(tag, href, hasAction, action, direct) ==
  [tag |-> tag, href |-> href, hasAction |-> hasAction, action |-> action,
   direct |-> direct, wired |-> 0]

Node(type, els) == [type |-> type, els |-> els, kids |-> <<>>]
Built(node) == [status |-> "node", node |-> node]
Throws == [status |-> "throw", node |-> Node("", <<>>)]
NotANode == [status |-> "nonNode", node |-> Node("", <<>>)]
NoRenderer == [status |-> "null", node |-> Node("", <<>>)]

\* el('a', {href: l.url ? sanitizeUrl(l.url) : '#',
\*          dataset: l.action ? {action: sanitizeActionName(l.action)} : {}}, text)
\* el() skips only undefined and null attribute values: '' is set as href="".
LinkElement(l) ==
  Element("a",
          IF l.url.kind # "absent" THEN sanitizeUrl(l.url, PageOrigin) ELSE HashHref,
          l.action # <<>>,
          IF l.action # <<>> THEN sanitizeActionName(l.action) ELSE <<>>,
          FALSE)

LinkIf(l) == IF l.present /\ l.text THEN <<LinkElement(l)>> ELSE <<>>

CodeCopy == <<"c", "o", "d", "e", ":", "c", "o", "p", "y">>

\* (data.items || []).forEach((item) => { ... item.icon ... item.title ... })
ItemsLoopThrows(items) ==
  \/ items.kind = "notSeq"
  \/ items.kind = "seq" /\ \E i \in 1..Len(items.elems) : items.elems[i].kind = "null"

RENDERERS_hero(data) == Built(Node("hero", LinkIf(data.cta)))

RENDERERS_text(data) == Built(Node("text", <<>>))

RENDERERS_feature_grid(data) ==
  IF ItemsLoopThrows(data.items) THEN Throws ELSE Built(Node("feature-grid", <<>>))

RENDERERS_code(data) ==
  Built(Node("code", <<Element("button", NoHref, TRUE, CodeCopy, TRUE)>>))

RENDERERS_cta(data) ==
  Built(Node("cta", LinkIf(data.primary) \o LinkIf(data.secondary)))

\* RENDERERS.faq: (data.items || []).forEach((item, index) => { ... item.id ... })
RENDERERS_faq(data) ==
  IF ItemsLoopThrows(data.items) THEN Throws ELSE Built(Node("faq", <<>>))

\* Array.isArray(x) ? x : []
ListOf(l) == IF l.kind = "seq" THEN l.elems ELSE <<>>

HasNull(elems) == \E i \in 1..Len(elems) : elems[i].kind = "null"

\* RENDERERS['comparison-table']: Object.values(row) throws for a null row
RENDERERS_comparison_table(data) ==
  IF HasNull(ListOf(data.rows)) THEN Throws ELSE Built(Node("comparison-table", <<>>))

\* RENDERERS.form: the node; its controls and handlers are FormSubmit's
RENDERERS_form(data) == Built(Node("form", <<>>))

\* the own keys of RENDERERS that this model covers
RendererKeys == {"hero", "text", "feature-grid", "code", "cta", "faq", "comparison-table",
                 "form", "columns", "tabset", "card", "stack"}

\* RENDERERS and customRenderers are plain object literals: a lookup by a
\* caller-chosen key also finds what Object.prototype defines.
ObjectPrototypeKeys == {"constructor", "toString"}

\* RENDERERS[type] is truthy
HasRenderer(type) == type \in RendererKeys \cup ObjectPrototypeKeys

isKnownType(type) == type # "" /\ HasRenderer(type)

RECURSIVE Concat(_)
Concat(seqs) == IF seqs = <<>> THEN <<>> ELSE Head(seqs) \o Concat(Tail(seqs))

\* the section lists nested in the entries of a collection (columns, tabs):
\* entry && Array.isArray(entry.sections)
NestedSections(elems) ==
  Concat([i \in 1..Len(elems) |->
            IF elems[i].kind = "obj" THEN ListOf(elems[i].sections) ELSE <<>>])

RECURSIVE renderSection(_)

\* sections.forEach((s) => { const rendered = renderSection(s); if (rendered) ...
\* appendChild(rendered) }): a nested renderer's exception, or a result that is
\* no DOM node, throws out of the container's renderer
RECURSIVE RenderKids(_)
RenderKids(sections) ==
  IF sections = <<>> THEN [threw |-> FALSE, nodes |-> <<>>]
  ELSE LET r == renderSection(Head(sections))
       IN  IF r.status \in {"throw", "nonNode"} THEN [threw |-> TRUE, nodes |-> <<>>]
           ELSE LET rest == RenderKids(Tail(sections))
                IN  IF rest.threw THEN rest
                    ELSE [threw |-> FALSE,
                          nodes |-> (IF r.status = "node" THEN <<r.node>> ELSE <<>>)
                                      \o rest.nodes]

Container(type, sections) ==
  LET k == RenderKids(sections)
  IN  IF k.threw THEN Throws ELSE Built([Node(type, <<>>) EXCEPT !.kids = k.nodes])

\* RENDERERS.stack / RENDERERS.card: if (Array.isArray(data.sections)) ...
RENDERERS_stack(data) == Container("stack", ListOf(data.sections))

RENDERERS_card(data) == Container("card", ListOf(data.sections))

\* RENDERERS.columns: (data.items || []).forEach((col) => ...)
RENDERERS_columns(data) ==
  IF data.items.kind = "notSeq" THEN Throws
  ELSE Container("columns", NestedSections(data.items.elems))

\* RENDERERS.tabset: tabs.map((t, i) => safeId(t.id, ...)) throws for a null tab
RENDERERS_tabset(data) ==
  LET tabs == Slice(ListOf(data.tabs), maxTabs)
  IN  IF tabs = <<>> THEN Built(Node("tabset", <<>>))
      ELSE IF HasNull(tabs) THEN Throws
      ELSE Container("tabset", NestedSections(tabs))

\* renderSection(sectionData).  No host renderers are registered in this
\* model (customRenderers is {}), so customRenderers[type] is truthy exactly
\* for an inherited key; calling what is found there gives no DOM node.
renderSection(data) ==
  IF data.type \in ObjectPrototypeKeys THEN NotANode
  ELSE IF data.type \notin RendererKeys THEN NoRenderer
  ELSE CASE data.type = "hero" -> RENDERERS_hero(data)
         [] data.type = "text" -> RENDERERS_text(data)
         [] data.type = "feature-grid" -> RENDERERS_feature_grid(data)
         [] data.type = "code" -> RENDERERS_code(data)
         [] data.type = "cta" -> RENDERERS_cta(data)
         [] data.type = "faq" -> RENDERERS_faq(data)
         [] data.type = "comparison-table" -> RENDERERS_comparison_table(data)
         [] data.type = "form" -> RENDERERS_form(data)
         [] data.type = "columns" -> RENDERERS_columns(data)
         [] data.type = "tabset" -> RENDERERS_tabset(data)
         [] data.type = "card" -> RENDERERS_card(data)
         [] data.type = "stack" -> RENDERERS_stack(data)

----------------------------------------------------------------------------
(* _normalizeSections *)

\* a clamp that keeps the end of the string instead of its start
clampString_keepEnd(str) ==
  IF str.kind # "string" THEN Str(0)
  ELSE IF str.len <= maxCharsPerField THEN str
  ELSE [str EXCEPT !.off = str.off + str.len - maxCharsPerField, !.len = maxCharsPerField]

\* clampString(str)
clampString(str) ==
  IF str.kind # "string" THEN Str(0)
  ELSE IF str.len <= maxCharsPerField THEN str
  ELSE [str EXCEPT !.len = maxCharsPerField]

\* if (typeof val === 'string') section[key] = clampString(val)
ClampField(val) == IF val.kind = "string" THEN clampString(val) ELSE val

\* a slice that loses one more entry on every call
ClampItems_shorten(items, cap) ==
  IF items.kind = "seq"
  THEN [items EXCEPT !.elems = Slice(items.elems, Min(cap, Len(items.elems) - 1))]
  ELSE items

\* section.items = section.items.slice(0, cap)
ClampItems(items, cap) ==
  IF items.kind = "seq" THEN [items EXCEPT !.elems = Slice(items.elems, cap)] ELSE items

\* the type-specific clamping of one accepted entry
ClampCollections(section) ==
  [section EXCEPT
     !.items = IF section.type = "faq" THEN ClampItems(@, maxFaqItems)
               ELSE IF section.type # "comparison-table" THEN ClampItems(@, maxItemsPerList)
               ELSE @,
     !.rows = IF section.type = "comparison-table" THEN ClampItems(@, maxRowsPerTable) ELSE @,
     !.tabs = IF section.type = "tabset" THEN ClampItems(@, maxTabs) ELSE @,
     !.fields = IF section.type = "form" THEN ClampItems(@, maxFields) ELSE @]

RECURSIVE normalizeSections(_, _)

\* (col) => { if (!col || typeof col !== 'object') return {};
\*            if (Array.isArray(col.sections)) return {...col, sections: normalize(col.sections, depth + 1)};
\*            return col; }
NormalizeEntry(e, depth) ==
  IF e.kind # "obj" THEN ObjItem
  ELSE IF e.sections.kind = "seq"
       THEN [e EXCEPT !.sections.elems = normalizeSections(@, depth + 1)]
       ELSE e

NormalizeEntries(list, depth) ==
  IF list.kind = "seq"
  THEN [list EXCEPT !.elems = [i \in 1..Len(@) |-> NormalizeEntry(@[i], depth)]]
  ELSE list

\* the nested section containers: columns, tabset, card, stack
NormalizeNested(section, depth) ==
  [section EXCEPT
     !.items = IF section.type = "columns" THEN NormalizeEntries(@, depth) ELSE @,
     !.tabs = IF section.type = "tabset" THEN NormalizeEntries(@, depth) ELSE @,
     !.sections = IF section.type \in {"card", "stack"} /\ @.kind = "seq"
                  THEN [@ EXCEPT !.elems = normalizeSections(@, depth + 1)]
                  ELSE @]

NormalizeOne(raw, depth) ==
  NormalizeNested(ClampCollections([raw EXCEPT !.title = ClampField(@)]), depth)

RECURSIVE NormalizeLoop(_, _, _)
NormalizeLoop(sections, result, depth) ==
  IF sections = <<>> \/ Len(result) >= maxSections THEN result
  ELSE LET raw == Head(sections)
       IN  IF ~raw.obj \/ ~isKnownType(raw.type)
           THEN NormalizeLoop(Tail(sections), result, depth)
           ELSE NormalizeLoop(Tail(sections), Append(result, NormalizeOne(raw, depth)), depth)

\* _normalizeSections without its depth guard
normalizeSections_noDepthGuard(sections, depth) == NormalizeLoop(sections, <<>>, depth)

normalizeSections(sections, depth) ==
  IF depth > maxDepth THEN <<>> ELSE NormalizeLoop(sections, <<>>, depth)

----------------------------------------------------------------------------
(* addSection *)

\* node.querySelectorAll('[data-action]').forEach(btn => btn.addEventListener('click', ...))
RECURSIVE WireActions(_)
WireActions(node) ==
  [node EXCEPT !.els = [i \in 1..Len(node.els) |->
     IF node.els[i].hasAction THEN [node.els[i] EXCEPT !.wired = @ + 1] ELSE node.els[i]],
               !.kids = [i \in 1..Len(node.kids) |-> WireActions(node.kids[i])]]

\* The state addSection works on: the container's children, the counter, and
\* whether an exception has left the operation.
Dom(m, n, threw) == [mounted |-> m, sectionCount |-> n, threw |-> threw]

\* addSection with the new node inserted in front of the container's children
addSection_insertFirst(dom, data, hasOnAction) ==
  LET r == renderSection(data)
  IN  IF r.status = "null" THEN dom
      ELSE IF r.status # "node" THEN [dom EXCEPT !.threw = TRUE]
      ELSE Dom(<<IF hasOnAction THEN WireActions(r.node) ELSE r.node>> \o dom.mounted,
               dom.sectionCount + 1, FALSE)

\* addSection(sectionData): renderSection, wire the actions, rootContainer.appendChild(node)
addSection(dom, data, hasOnAction) ==
  LET r == renderSection(data)
  IN  IF r.status = "null" THEN dom
      ELSE IF r.status # "node" THEN [dom EXCEPT !.threw = TRUE]
      ELSE Dom(Append(dom.mounted, IF hasOnAction THEN WireActions(r.node) ELSE r.node),
               dom.sectionCount + 1, FALSE)

\* normalized.forEach((section) => this.addSection(section)): an exception ends the loop
RECURSIVE AddAll(_, _, _)
AddAll(dom, sections, hasOnAction) ==
  IF sections = <<>> \/ dom.threw THEN dom
  ELSE AddAll(addSection(dom, Head(sections), hasOnAction), Tail(sections), hasOnAction)

----------------------------------------------------------------------------
(* Inputs of Spec *)

Go == <<"g", "o">>
Stop == <<"s", "t", "o", "p">>
PaddedGo == <<" ", "g", "o">>

HttpsUrl == StrUrl("https", 19)
ScriptUrl == StrUrl("javascript", 19)
TelUrl == StrUrl("tel", 12)

SectionPool ==
  { [Section("hero") EXCEPT !.cta = Link(HttpsUrl, Go)],
    [Section("hero") EXCEPT !.cta = Link(ScriptUrl, Stop)],
    [Section("cta") EXCEPT !.primary = Link(TelUrl, PaddedGo), !.secondary = Link(NoUrl, <<>>)],
    [Section("feature-grid") EXCEPT !.items = Items(<<ObjItem>>)],
    [Section("feature-grid") EXCEPT !.items = Items(<<ObjItem, NullItem>>)],
    [Section("feature-grid") EXCEPT !.items = [kind |-> "notSeq", elems |-> <<>>]],
    Section("text"),
    Section("widget"),
    Section("toString"),
    Section(""),
    NullEntry }

\* the sections of SpecAction: those with an element that carries an action
ActionPool ==
  { [Section("hero") EXCEPT !.cta = Link(HttpsUrl, Go)],
    [Section("hero") EXCEPT !.cta = Link(ScriptUrl, Stop)],
    [Section("cta") EXCEPT !.primary = Link(TelUrl, PaddedGo), !.secondary = Link(NoUrl, <<>>)],
    Section("code") }

SeqsUpTo(S, n) == UNION {[1..k -> S] : k \in 0..n}

Page(themeName, sections) == [theme |-> themeName, sections |-> sections]
EmptyPage == Page("", <<>>)
Pages == {Page(t, ss) : t \in {"", "dark"}, ss \in SeqsUpTo(SectionPool, MaxPageLen)}
ActionPages == {Page("", ss) : ss \in SeqsUpTo(ActionPool, MaxPageLen)}

ThemeNames == {"light", "dark"}

OptionsSet ==
  [actionPolicy : {"", "allowAll", "allowList", "denyAll"},
   allowedActions : {[given |-> FALSE, names |-> {}], [given |-> TRUE, names |-> {PaddedGo}]},
   onAction : BOOLEAN]

\* the options that name neither actionPolicy nor allowedActions
DefaultOptionsSet == {o \in OptionsSet : o.actionPolicy = "" /\ ~o.allowedActions.given}

----------------------------------------------------------------------------
(* JSON text.  JSON.stringify is modelled by what it writes for the pages  *)
(* of the model; JSON.parse by its inverse on those texts, and it throws   *)
(* on every other text.                                                    *)

Quoted(chars) == <<"\"">> \o chars \o <<"\"">>

TypeChars(type) ==
  CASE type = "hero" -> <<"h", "e", "r", "o">>
    [] type = "text" -> <<"t", "e", "x", "t">>
    [] type = "widget" -> <<"w", "i", "d", "g", "e", "t">>

\* JSON.stringify({type})
SerializeSection(s) ==
  <<"{">> \o Quoted(<<"t", "y", "p", "e">>) \o <<":">> \o Quoted(TypeChars(s.type)) \o <<"}">>

RECURSIVE Join(_, _)
Join(texts, sep) ==
  IF texts = <<>> THEN <<>>
  ELSE IF Len(texts) = 1 THEN texts[1]
  ELSE texts[1] \o sep \o Join(Tail(texts), sep)

SectionsKey == Quoted(<<"s", "e", "c", "t", "i", "o", "n", "s">>)

\* JSON.stringify({sections: [...]})
SerializePage(page) ==
  <<"{">> \o SectionsKey \o <<":", "[">>
    \o Join([i \in 1..Len(page.sections) |-> SerializeSection(page.sections[i])], <<",">>)
    \o <<"]", "}">>

\* one section per line: sections.map(JSON.stringify).join('\n')
SerializeNDJSON(page) ==
  Join([i \in 1..Len(page.sections) |-> SerializeSection(page.sections[i])], <<"\n">>)

\* the sections a stream can carry
StreamPool == {Section("hero"), Section("text"), Section("widget")}

ParseFailure == [ok |-> FALSE, value |-> NullEntry]

\* JSON.parse(text)
JSONparse(text) ==
  IF \E s \in StreamPool : SerializeSection(s) = text
  THEN [ok |-> TRUE, value |-> CHOOSE s \in StreamPool : SerializeSection(s) = text]
  ELSE ParseFailure

\* String.prototype.includes / indexOf (1-based; 0 when absent), from position from
Occurrences(text, pat, from) ==
  {i \in from..(Len(text) - Len(pat) + 1) : SubSeq(text, i, i + Len(pat) - 1) = pat}

Includes(text, pat) == Occurrences(text, pat, 1) # {}

IndexOf(text, pat, from) ==
  LET occ == Occurrences(text, pat, from)
  IN  IF occ = {} THEN 0 ELSE CHOOSE i \in occ : \A j \in occ : i <= j

----------------------------------------------------------------------------
(* StreamingPageParser and NDJSONSectionParser *)

bufferLimit == 250000
bufferKeep == 8000

\* buffer.slice(-bufferKeep) once the buffer has outgrown bufferLimit
BoundBuffer(buffer) ==
  IF Len(buffer) > bufferLimit
  THEN SubSeq(buffer, Len(buffer) - bufferKeep + 1, Len(buffer))
  ELSE buffer

NewParser ==
  [buffer |-> <<>>, insideSections |-> FALSE, braceDepth |-> 0, currentObject |-> <<>>,
   inString |-> FALSE, escapeNext |-> FALSE, seenSectionsKey |-> FALSE,
   seenArrayStart |-> FALSE, lineBuffer |-> <<>>]

IdleParser == NewParser

\* What a decoder step works on: the parser's fields and the container.
Decoding(p, dom) == [p |-> p, dom |-> dom]

\* the onSection callback of renderStream / renderStreamNDJSON
onSection(dom, section, hasOnAction) ==
  AddAll(dom, normalizeSections(<<section>>, 0), hasOnAction)

\* try { const obj = JSON.parse(objStr); this.onSection(obj); } catch (e) {}
TryEmit(dom, objStr, hasOnAction) ==
  LET r == JSONparse(objStr)
  IN  IF ~r.ok THEN dom
      ELSE [onSection(dom, r.value, hasOnAction) EXCEPT !.threw = FALSE]

\* if (this.braceDepth > 0) this.currentObject += char
Keep(p, char) ==
  IF p.braceDepth > 0 THEN [p EXCEPT !.currentObject = Append(@, char)] ELSE p

\* the search for the "sections" key and the array start, outside the array
SearchStep(p) ==
  IF ~p.seenSectionsKey /\ ~Includes(p.buffer, SectionsKey) THEN p
  ELSE LET p1 == [p EXCEPT !.seenSectionsKey = TRUE]
           idx == IndexOf(p1.buffer, SectionsKey, 1)
       IN  IF /\ ~p1.seenArrayStart
              /\ idx # 0
              /\ IndexOf(p1.buffer, <<"[">>, idx + Len(SectionsKey)) # 0
           THEN [p1 EXCEPT !.seenArrayStart = TRUE, !.insideSections = TRUE]
           ELSE p1

\* a closing brace outside a string
CloseBrace(p, dom, hasOnAction) ==
  LET depth == p.braceDepth - 1
      obj == IF depth >= 0 THEN Append(p.currentObject, "}") ELSE p.currentObject
      p1 == [p EXCEPT !.braceDepth = depth, !.currentObject = obj]
  IN  IF depth # 0 THEN Decoding(p1, dom)
      ELSE LET objStr == Trim(obj)
               p2 == [p1 EXCEPT !.currentObject = <<>>]
           IN  IF objStr = <<>> THEN Decoding(p2, dom)
               ELSE Decoding(p2, TryEmit(dom, objStr, hasOnAction))

\* one pass of the character loop of StreamingPageParser.feed
FeedChar(p, dom, char, hasOnAction) ==
  IF ~p.insideSections THEN Decoding(SearchStep(p), dom)
  ELSE IF p.escapeNext THEN Decoding(Keep([p EXCEPT !.escapeNext = FALSE], char), dom)
  ELSE IF char = "\\" THEN Decoding(Keep([p EXCEPT !.escapeNext = TRUE], char), dom)
  ELSE IF char = "\"" THEN Decoding(Keep([p EXCEPT !.inString = ~@], char), dom)
  ELSE IF p.inString THEN Decoding(Keep(p, char), dom)
  ELSE IF char = "{"
       THEN Decoding([p EXCEPT !.currentObject = IF p.braceDepth = 0 THEN <<"{">>
                                                  ELSE Append(@, "{"),
                               !.braceDepth = @ + 1], dom)
  ELSE IF char = "}" THEN CloseBrace(p, dom, hasOnAction)
  ELSE IF char = "]"
       THEN IF p.braceDepth = 0 THEN Decoding([p EXCEPT !.insideSections = FALSE], dom)
            ELSE Decoding([p EXCEPT !.currentObject = Append(@, char)], dom)
  ELSE Decoding(Keep(p, char), dom)

\* for (let i = 0; i < str.length; i++) { ... }; only an exception would leave it early
RECURSIVE FeedLoop(_, _, _, _)
FeedLoop(d, str, i, hasOnAction) ==
  IF d.dom.threw \/ i > Len(str) THEN d
  ELSE FeedLoop(FeedChar(d.p, d.dom, str[i], hasOnAction), str, i + 1, hasOnAction)

\* StreamingPageParser.feed(chunk)
StreamingPageParser_feed(p, dom, chunk, hasOnAction) ==
  IF chunk = <<>> THEN Decoding(p, dom)
  ELSE LET d == FeedLoop(Decoding([p EXCEPT !.buffer = @ \o chunk], dom), chunk, 1, hasOnAction)
       IN  Decoding([d.p EXCEPT !.buffer = BoundBuffer(@)], d.dom)

\* One line of NDJSON: parse it, hand a value with a type to onSection.  (The
\* {section: {...}} wrapper is a value no stream of the model carries.)
TryLine(dom, line, hasOnAction) ==
  LET r == JSONparse(line)
  IN  IF line = <<>> \/ ~r.ok THEN dom
      ELSE IF r.value.obj /\ r.value.type # ""
           THEN [onSection(dom, r.value, hasOnAction) EXCEPT !.threw = FALSE]
           ELSE dom

\* while ((idx = this.lineBuffer.indexOf('\n')) !== -1) { ... }
RECURSIVE LineLoop(_, _)
LineLoop(d, hasOnAction) ==
  LET idx == IndexOf(d.p.lineBuffer, <<"\n">>, 1)
  IN  IF idx = 0 THEN d
      ELSE LineLoop(Decoding([d.p EXCEPT !.lineBuffer =
                                SubSeq(@, idx + 1, Len(@))],
                             TryLine(d.dom, Trim(SubSeq(d.p.lineBuffer, 1, idx - 1)),
                                     hasOnAction)),
                    hasOnAction)

\* NDJSONSectionParser.feed(chunk)
NDJSONSectionParser_feed(p, dom, chunk, hasOnAction) ==
  IF chunk = <<>> THEN Decoding(p, dom)
  ELSE LET d == LineLoop(Decoding([p EXCEPT !.lineBuffer = @ \o chunk], dom), hasOnAction)
       IN  Decoding([d.p EXCEPT !.lineBuffer = BoundBuffer(@)], d.dom)

\* NDJSONSectionParser.flush()
NDJSONSectionParser_flush(p, dom, hasOnAction) ==
  Decoding([p EXCEPT !.lineBuffer = <<>>], TryLine(dom, Trim(p.lineBuffer), hasOnAction))

----------------------------------------------------------------------------
(* Idle values of the variables a specification does not use *)

NoClick == [clicked |-> FALSE, node |-> 0, el |-> 0, calls |-> <<>>, blocked |-> <<>>]
NoOp == [op |-> "new", page |-> EmptyPage, threw |-> FALSE]
IdleStream == [mode |-> "", page |-> EmptyPage, rest |-> <<>>]
NoWidget == [kind |-> "none"]
NoNorm == [called |-> FALSE, input |-> <<>>, depth |-> 0, out |-> <<>>, again |-> <<>>]

----------------------------------------------------------------------------
(* The session: constructor, render, clicks, setTheme, clear *)

\* constructor: this.allowedActions = Array.isArray(o.allowedActions)
\*                ? o.allowedActions.map(sanitizeActionName) : null
ctorAllowedActions(o) ==
  [given |-> o.allowedActions.given,
   names |-> {sanitizeActionName(n) : n \in o.allowedActions.names}]

\* constructor: this.actionPolicy = o.actionPolicy || (this.allowedActions ? 'allowList' : 'allowAll')
ctorActionPolicy(o) ==
  IF o.actionPolicy # "" THEN o.actionPolicy
  ELSE IF o.allowedActions.given THEN "allowList" ELSE "allowAll"

FirstStyleEl == 1

InitSession(optionsSet) ==
  /\ options \in optionsSet
  /\ actionPolicy = ctorActionPolicy(options)
  /\ allowedActions = ctorAllowedActions(options)
  /\ onAction = options.onAction
  /\ theme = "light"
  /\ styleEl = FirstStyleEl
  /\ nextEl = FirstStyleEl + 1
  /\ mounted = <<>>
  /\ sectionCount = 0
  /\ lastOp = NoOp
  /\ lastClick = NoClick
  /\ stream = IdleStream
  /\ parser = IdleParser
  /\ pc = "idle"
  /\ origin = PageOrigin
  /\ urlIn = NoUrl
  /\ urlOut = EmptyHref
  /\ widget = NoWidget
  /\ norm = NoNorm

Init == InitSession(DefaultOptionsSet)

InitAction == InitSession(OptionsSet)

\* injectStyles: if (existing) existing.remove(); const style = document.createElement('style');
\* ... rootNode.appendChild(style)
injectStyles(current, fresh) == fresh

\* setTheme(themeName): this.theme = themeName; ...; this.injectStyles()
SetThemeEffect(themeName) ==
  /\ theme' = themeName
  /\ styleEl' = injectStyles(styleEl, nextEl)
  /\ nextEl' = nextEl + 1

SetTheme(themeName) ==
  /\ nextEl <= MaxStyleEls
  /\ SetThemeEffect(themeName)
  /\ UNCHANGED <<options, actionPolicy, allowedActions, onAction, mounted, sectionCount,
                 lastOp, lastClick>>
  /\ UNCHANGED <<streamVars, urlVars, widgetVars, normVars>>

\* render(pageData): clear(); setTheme when pageData.theme; normalize; addSection each.
\* render begins with clear(), so a render over an earlier render's output is the
\* Clear step followed by this one: the model takes it in those two steps.
Render(page) ==
  /\ lastOp.op # "render"
  /\ IF page.theme # ""
       THEN nextEl <= MaxStyleEls /\ SetThemeEffect(page.theme)
       ELSE UNCHANGED <<theme, styleEl, nextEl>>
  /\ LET normalized == normalizeSections(page.sections, 0)
         dom == AddAll(Dom(<<>>, 0, FALSE), normalized, onAction)
     IN  /\ mounted' = dom.mounted
         /\ sectionCount' = dom.sectionCount
         /\ lastOp' = [op |-> "render", page |-> page, threw |-> dom.threw]
  /\ lastClick' = NoClick
  /\ UNCHANGED <<options, actionPolicy, allowedActions, onAction>>
  /\ UNCHANGED <<streamVars, urlVars, widgetVars, normVars>>

\* clear(): clearNode(this.rootContainer); this.sectionCount = 0
Clear_keepCount ==
  /\ mounted' = <<>>
  /\ sectionCount' = sectionCount
  /\ lastOp' = [op |-> "clear", page |-> EmptyPage, threw |-> FALSE]
  /\ lastClick' = NoClick
  /\ UNCHANGED <<options, actionPolicy, allowedActions, onAction, theme, styleEl, nextEl>>
  /\ UNCHANGED <<streamVars, urlVars, widgetVars, normVars>>

Clear ==
  /\ mounted' = <<>>
  /\ sectionCount' = 0
  /\ lastOp' = [op |-> "clear", page |-> EmptyPage, threw |-> FALSE]
  /\ lastClick' = NoClick
  /\ UNCHANGED <<options, actionPolicy, allowedActions, onAction, theme, styleEl, nextEl>>
  /\ UNCHANGED <<streamVars, urlVars, widgetVars, normVars>>

\* _shouldAllowAction(actionName)
shouldAllowAction(policy, allowed, actionName) ==
  LET name == sanitizeActionName(actionName)
  IN  IF name = <<>> THEN FALSE
      ELSE IF policy = "denyAll" THEN FALSE
      ELSE IF policy = "allowList" THEN allowed.given /\ name \in allowed.names
      ELSE TRUE

\* The click listener addSection attaches to an element with data-action:
\* what it passes to onAction and what it reports as blocked.
WiredListener(e, policy, allowed) ==
  LET actionName == sanitizeActionName(e.action)
  IN  IF actionName = <<>> THEN [calls |-> <<>>, blocked |-> <<>>]
      ELSE IF ~shouldAllowAction(policy, allowed, actionName)
        THEN [calls |-> <<>>, blocked |-> <<actionName>>]
      ELSE [calls |-> <<actionName>>, blocked |-> <<>>]

\* The click listener a renderer attaches itself (RENDERERS.code's copy button):
\* if (ctx.onAction) ctx.onAction('code:copy', e, {text: codeText})
DirectListener(e, hasOnAction) ==
  IF e.direct /\ hasOnAction THEN <<CodeCopy>> ELSE <<>>

RECURSIVE Repeat(_, _)
Repeat(s, n) == IF n = 0 THEN <<>> ELSE s \o Repeat(s, n - 1)

\* A click runs the element's listeners in the order they were added: the
\* renderer's own, then addSection's.
ClickOutcome(e, policy, allowed, hasOnAction) ==
  LET w == WiredListener(e, policy, allowed)
  IN  [calls |-> DirectListener(e, hasOnAction) \o Repeat(w.calls, e.wired),
       blocked |-> Repeat(w.blocked, e.wired)]

Click(i, j) ==
  /\ i \in 1..Len(mounted)
  /\ j \in 1..Len(mounted[i].els)
  /\ LET out == ClickOutcome(mounted[i].els[j], actionPolicy, allowedActions, onAction)
     IN  lastClick' = [clicked |-> TRUE, node |-> i, el |-> j,
                       calls |-> out.calls, blocked |-> out.blocked]
  /\ UNCHANGED <<options, actionPolicy, allowedActions, onAction, theme, styleEl, nextEl,
                 mounted, sectionCount, lastOp>>
  /\ UNCHANGED <<streamVars, urlVars, widgetVars, normVars>>

Next ==
  \/ \E page \in Pages : Render(page)
  \/ \E t \in ThemeNames : SetTheme(t)
  \/ Clear

Spec == Init /\ [][Next]_vars

NextAction ==
  \/ \E page \in ActionPages : Render(page)
  \/ \E i \in 1..Len(mounted) : \E j \in 1..Len(mounted[i].els) : Click(i, j)
  \/ Clear

SpecAction == InitAction /\ [][NextAction]_vars

----------------------------------------------------------------------------
(* Properties of render (Spec) *)

TypesOf(nodes) == [i \in 1..Len(nodes) |-> nodes[i].type]

RECURSIVE IsSubseq(_, _)
IsSubseq(a, b) ==
  IF a = <<>> THEN TRUE
  ELSE IF b = <<>> THEN FALSE
  ELSE IF Head(a) = Head(b) THEN IsSubseq(Tail(a), Tail(b))
  ELSE IsSubseq(a, Tail(b))

\* an entry whose type is a recognized built-in type
IsRecognized(e) == e.obj /\ e.type \in RendererKeys

\* a recognized entry whose collection field is a sequence of objects (or absent)
IsWellFormed(e) == IsRecognized(e) /\ ~ItemsLoopThrows(e.items)

Rendered == lastOp.op = "render"
Input == lastOp.page.sections

\* C1: a section list of N entries with a recognized built-in type, mixed with
\* entries whose type is unrecognized or missing, mounts exactly those N
\* sections, in their original relative order.  (Stated for lists whose
\* recognized entries are well formed, so that only the handling of the other
\* entries decides it.)
C1_UnknownTypeDrop ==
  (Rendered /\ \A i \in 1..Len(Input) :
                 Input[i].obj /\ (IsRecognized(Input[i]) => IsWellFormed(Input[i])))
    => TypesOf(mounted) = TypesOf(SelectSeq(Input, IsRecognized))

\* C2: render never throws because of caller data, and every valid section of
\* a description that also holds a malformed section is still mounted.
C2_RenderNeverThrows ==
  Rendered =>
    /\ ~lastOp.threw
    /\ IsSubseq(TypesOf(SelectSeq(Input, IsWellFormed)), TypesOf(mounted))

\* the link descriptors a section's renderer turns into <a> elements
DeclaredLinks(data) ==
  LET Shown(l) == l.present /\ l.text
  IN  IF data.type = "hero" THEN SelectSeq(<<data.cta>>, Shown)
      ELSE IF data.type = "cta" THEN SelectSeq(<<data.primary, data.secondary>>, Shown)
      ELSE <<>>

\* a non-empty string that the URL sanitizer rejects
IsRejectedUrl(u) ==
  u.kind = "string" /\ u.len > 0 /\ sanitizeUrl(u, PageOrigin) = EmptyHref

\* C8: every link whose declared url is a non-empty string that sanitizeUrl
\* rejects is still rendered, and its href is exactly '#'.
C8_RejectedHrefIsHash ==
  Rendered =>
    LET normalized == normalizeSections(Input, 0)
    IN  \A k \in 1..Len(mounted) :
          LET links == DeclaredLinks(normalized[k])
          IN  /\ Len(mounted[k].els) = Len(links)
              /\ \A j \in 1..Len(links) :
                   IsRejectedUrl(links[j].url) => mounted[k].els[j].href = HashHref

\* C10: across any sequence of theme switches the session's style element is
\* the same element: the one injected at construction.
C10_SameStyleElement == styleEl = FirstStyleEl

----------------------------------------------------------------------------
(* Properties of the action sandbox (SpecAction) *)

Clicked == mounted[lastClick.node].els[lastClick.el]

Invoked(name) == \E i \in 1..Len(lastClick.calls) : lastClick.calls[i] = name

\* C5: with policy allowList and allow set S, a click on an element whose
\* sanitized action name is in S invokes the callback with that name; a click
\* on one whose name is not in S invokes nothing and only reports it blocked.
C5_AllowListGate ==
  (lastClick.clicked /\ onAction /\ actionPolicy = "allowList" /\ Clicked.hasAction
     /\ sanitizeActionName(Clicked.action) # <<>>)
    => LET name == sanitizeActionName(Clicked.action)
           S == IF allowedActions.given THEN allowedActions.names ELSE {}
       IN  IF name \in S THEN Invoked(name)
           ELSE lastClick.calls = <<>> /\ lastClick.blocked = <<name>>

\* C6: with policy denyAll no click on an element that carries a data-action
\* attribute invokes the callback.
C6_DenyAllBlocksAll ==
  (lastClick.clicked /\ actionPolicy = "denyAll" /\ Clicked.hasAction)
    => lastClick.calls = <<>>

\* C7: a session constructed without actionPolicy has the effective policy
\* allowList; with allowedActions missing too, a click on an element with a
\* declared action invokes nothing.
C7_DefaultPolicyAllowList ==
  (options.actionPolicy = "" /\ onAction /\ lastClick.clicked /\ Clicked.hasAction) =>
    /\ actionPolicy = "allowList"
    /\ ~options.allowedActions.given => lastClick.calls = <<>>

----------------------------------------------------------------------------
(* sanitizeUrl on one input (SpecUrl) *)

UrlLengths == {20, maxUrlLength, maxUrlLength + 1}

UrlInputs ==
  {[kind |-> "other", pad |-> 0, len |-> 0, scheme |-> ""],
   [kind |-> "string", pad |-> 0, len |-> 0, scheme |-> ""],
   [kind |-> "string", pad |-> 1, len |-> 1, scheme |-> ""]}
  \cup [kind : {"string"}, pad : {0, 1}, len : UrlLengths,
        scheme : Schemes \cup {"relative", "invalid"}]

Origins == {"http", "https", "null"}

InitUrl ==
  /\ origin \in Origins
  /\ urlIn \in UrlInputs
  /\ urlOut = EmptyHref
  /\ widget = NoWidget
  /\ norm = NoNorm
  /\ pc = "url"
  /\ options \in {o \in DefaultOptionsSet : ~o.onAction}
  /\ actionPolicy = ctorActionPolicy(options)
  /\ allowedActions = ctorAllowedActions(options)
  /\ onAction = options.onAction
  /\ theme = "light"
  /\ styleEl = FirstStyleEl
  /\ nextEl = FirstStyleEl + 1
  /\ mounted = <<>>
  /\ sectionCount = 0
  /\ lastOp = NoOp
  /\ lastClick = NoClick
  /\ stream = IdleStream
  /\ parser = IdleParser

CallSanitizeUrl ==
  /\ pc = "url"
  /\ urlOut' = sanitizeUrl(urlIn, origin)
  /\ pc' = "urlDone"
  /\ UNCHANGED <<origin, urlIn>>
  /\ UNCHANGED <<sessionVars, stream, parser, widgetVars, normVars>>

NextUrl == CallSanitizeUrl

SpecUrl == InitUrl /\ [][NextUrl]_vars

\* C9: sanitizeUrl preserves every string of at most the maximum URL length
\* whose scheme is http, https, mailto or tel, and returns '' for every
\* non-string, every over-long string and every string with another scheme.
\* (Stated for a page with a hierarchical origin and for text without
\* surrounding white space.)
C9_UrlAllowlist ==
  (pc = "urlDone" /\ origin # "null" /\ urlIn.pad = 0) =>
    /\ (urlIn.kind = "string" /\ urlIn.len <= maxUrlLength
          /\ urlIn.scheme \in {"http", "https", "mailto", "tel"})
         => urlOut = UrlHref(urlIn.scheme, urlIn.len)
    /\ (urlIn.kind # "string" \/ urlIn.len > maxUrlLength
          \/ urlIn.scheme \in Schemes \ {"http", "https", "mailto", "tel"})
         => urlOut = EmptyHref

----------------------------------------------------------------------------
(* Streaming render (SpecStream): renderStream / renderStreamNDJSON over a *)
(* source that delivers the serialized page in chunks of any size.         *)

StreamModes == {"json", "ndjson"}
StreamPages == {Page("", ss) : ss \in SeqsUpTo(StreamPool, MaxStreamLen)}

Serialize(mode, page) ==
  IF mode = "json" THEN SerializePage(page) ELSE SerializeNDJSON(page)

\* No section of StreamPool declares an action, so one host callback setting is enough.
InitStream == InitSession({o \in DefaultOptionsSet : o.onAction})

\* renderStream(stream) / renderStreamNDJSON(stream) up to the first read:
\* this.clear(), a new parser
StartStream(mode, page) ==
  /\ pc = "idle"
  /\ mounted' = <<>>
  /\ sectionCount' = 0
  /\ parser' = NewParser
  /\ stream' = [mode |-> mode, page |-> page, rest |-> Serialize(mode, page)]
  /\ pc' = "reading"
  /\ lastOp' = [op |-> "renderStream", page |-> page, threw |-> FALSE]
  /\ lastClick' = NoClick
  /\ UNCHANGED <<options, actionPolicy, allowedActions, onAction, theme, styleEl, nextEl>>
  /\ UNCHANGED <<urlVars, widgetVars, normVars>>

\* _consumeStream: one chunk read, handed to parser.feed
ReadChunk(k) ==
  /\ pc = "reading"
  /\ k <= Len(stream.rest)
  /\ LET chunk == SubSeq(stream.rest, 1, k)
         dom == Dom(mounted, sectionCount, FALSE)
         d == IF stream.mode = "json"
              THEN StreamingPageParser_feed(parser, dom, chunk, onAction)
              ELSE NDJSONSectionParser_feed(parser, dom, chunk, onAction)
     IN  /\ parser' = d.p
         /\ mounted' = d.dom.mounted
         /\ sectionCount' = d.dom.sectionCount
  /\ stream' = [stream EXCEPT !.rest = SubSeq(@, k + 1, Len(@))]
  /\ UNCHANGED <<pc, lastOp, lastClick>>
  /\ UNCHANGED <<options, actionPolicy, allowedActions, onAction, theme, styleEl, nextEl>>
  /\ UNCHANGED <<urlVars, widgetVars, normVars>>

\* the source is exhausted: _consumeStream returns; renderStreamNDJSON flushes
EndOfStream ==
  /\ pc = "reading"
  /\ stream.rest = <<>>
  /\ LET dom == Dom(mounted, sectionCount, FALSE)
         d == IF stream.mode = "ndjson"
              THEN NDJSONSectionParser_flush(parser, dom, onAction)
              ELSE Decoding(parser, dom)
     IN  /\ parser' = d.p
         /\ mounted' = d.dom.mounted
         /\ sectionCount' = d.dom.sectionCount
  /\ pc' = "done"
  /\ UNCHANGED <<stream, lastOp, lastClick>>
  /\ UNCHANGED <<options, actionPolicy, allowedActions, onAction, theme, styleEl, nextEl>>
  /\ UNCHANGED <<urlVars, widgetVars, normVars>>

\* a read rejects: the exception leaves _consumeStream and the render call
SourceError ==
  /\ pc = "reading"
  /\ pc' = "error"
  /\ lastOp' = [lastOp EXCEPT !.threw = TRUE]
  /\ UNCHANGED <<stream, parser, mounted, sectionCount, lastClick>>
  /\ UNCHANGED <<options, actionPolicy, allowedActions, onAction, theme, styleEl, nextEl>>
  /\ UNCHANGED <<urlVars, widgetVars, normVars>>

MaxTextLen == Len(SerializePage(Page("", [i \in 1..MaxStreamLen |-> Section("widget")])))

NextStream ==
  \/ \E mode \in StreamModes, page \in StreamPages : StartStream(mode, page)
  \/ \E k \in 1..MaxTextLen : ReadChunk(k)
  \/ EndOfStream
  \/ SourceError

SpecStream == InitStream /\ [][NextStream]_vars

\* what render mounts for the page being streamed
FullRender(page) ==
  AddAll(Dom(<<>>, 0, FALSE), normalizeSections(page.sections, 0), onAction).mounted

\* a page whose sections all carry a recognized built-in type
IsValidPage(page) == \A i \in 1..Len(page.sections) : IsWellFormed(page.sections[i])

\* C3: a complete, valid page mounts the same sections (count, types, order)
\* through render and through either streaming decoder fed its serialized text.
C3_StreamEqualsRender ==
  (pc = "done" /\ IsValidPage(stream.page))
    => TypesOf(mounted) = TypesOf(FullRender(stream.page))

IsPrefix(a, b) == Len(a) <= Len(b) /\ SubSeq(b, 1, Len(a)) = a

\* the complete output of addSection for one decoded section
IsCompleteNode(n) ==
  \E sec \in StreamPool :
    LET dom == onSection(Dom(<<>>, 0, FALSE), sec, onAction)
    IN  dom.mounted = <<n>>

\* C4: between any two chunk reads of a streaming render the mounted output
\* only grows at its end, and every mounted section is a completely decoded,
\* completely constructed one.
C4_AppendOnly ==
  [][pc = "reading" =>
       /\ IsPrefix(mounted, mounted')
       /\ \A i \in 1..Len(mounted') : IsCompleteNode(mounted'[i])]_vars

C4_Witness ==
  /\ pc = "reading"
  /\ stream.rest # <<>>
  /\ Len(mounted) = 1
  /\ Len(stream.page.sections) = 2
  /\ mounted[1].type # stream.page.sections[2].type

----------------------------------------------------------------------------
(* _normalizeSections as a function (SpecNorm): one call on an input list  *)
(* and one more call on its result.                                        *)

Block(e, n) == [i \in 1..n |-> e]

\* a collection of n entries, the first a primitive and the others objects
Collection(n) == Items(Block(PrimItem, Min(n, 1)) \o Block(ObjItem, Max(n - 1, 0)))

TitledText(len) == [Section("text") EXCEPT !.title = Str(len)]

\* text sections, two rejected entries, hero sections
MixedLists ==
  {Block(TitledText(len), i) \o <<Section("widget"), NullEntry>> \o Block(Section("hero"), j) :
     len \in {0, maxCharsPerField, maxCharsPerField + Over},
     i \in {0, 1, maxSections - 1, maxSections},
     j \in {0, 1, Over, maxSections + Over}}

SelectField(n) == [ObjItem EXCEPT !.options = Collection(n)]

CollectionLists ==
  {<<[Section("faq") EXCEPT !.items = Collection(maxFaqItems + d)]>> : d \in {0, Over}}
  \cup {<<[Section("feature-grid") EXCEPT !.items = Collection(maxItemsPerList + d)]>> :
          d \in {0, Over}}
  \cup {<<[Section("comparison-table") EXCEPT !.rows = Collection(maxRowsPerTable + d)]>> :
          d \in {0, Over}}
  \cup {<<[Section("tabset") EXCEPT !.tabs = Collection(maxTabs + d)]>> : d \in {0, Over}}
  \cup {<<[Section("form") EXCEPT !.fields = Collection(maxFields + d)]>> : d \in {0, Over}}
  \cup {<<[Section("form") EXCEPT
             !.fields = Items(<<SelectField(maxOptionsPerSelect + d)>>)]>> : d \in {0, Over}}

WrapTypes == <<"card", "columns", "tabset", "stack">>

\* a container of the given type around a child section list
Wrap(type, kids) ==
  CASE type \in {"card", "stack"} -> [Section(type) EXCEPT !.sections = Items(kids)]
    [] type = "columns" ->
         [Section(type) EXCEPT
            !.items = Items(<<NullItem, [ObjItem EXCEPT !.sections = Items(kids)]>>)]
    [] type = "tabset" ->
         [Section(type) EXCEPT !.tabs = Items(<<[ObjItem EXCEPT !.sections = Items(kids)]>>)]

\* k containers nested in one another around a text section and a rejected entry
RECURSIVE Nest(_, _)
Nest(k, shift) ==
  IF k = 0 THEN <<Section("text"), Section("widget")>>
  ELSE <<Wrap(WrapTypes[((k + shift) % Len(WrapTypes)) + 1], Nest(k - 1, shift)),
         Section("text")>>

NestedLists == {Nest(k, shift) : k \in 1..MaxNest, shift \in 0..(Len(WrapTypes) - 1)}

NormInputs == MixedLists \cup CollectionLists \cup NestedLists

NormDepths == {0, 1, maxDepth, maxDepth + 1}

InitNorm == InitSession({o \in DefaultOptionsSet : ~o.onAction})

CallNormalize(input, depth) ==
  /\ ~norm.called
  /\ LET out == normalizeSections(input, depth)
     IN  norm' = [called |-> TRUE, input |-> input, depth |-> depth, out |-> out,
                  again |-> normalizeSections(out, depth)]
  /\ UNCHANGED <<sessionVars, streamVars, urlVars, widgetVars>>

NextNorm == \E input \in NormInputs, depth \in NormDepths : CallNormalize(input, depth)

SpecNorm == InitNorm /\ [][NextNorm]_vars

\* C11: the normalizer is idempotent: normalizing its own output, at the same
\* depth, returns that output.
C11_NormalizeIdempotent == norm.called => norm.again = norm.out

C11_Witness ==
  /\ norm.called
  /\ norm.out # <<>>
  /\ norm.out # norm.input
  /\ \E i \in 1..Len(norm.out) : norm.out[i].type \in {"columns", "faq", "form"}

\* an entry the normalizer accepts: an object whose type is registered
Accepted(e) == e.obj /\ isKnownType(e.type)

\* C12: one normalizer call (at a depth within the limit) returns exactly the
\* first maxSections accepted entries, in input order, and each returned
\* top-level string field is the original cut to its first maxCharsPerField
\* characters.
C12_FrontBiasedTruncation ==
  (norm.called /\ norm.depth <= maxDepth) =>
    LET acc == SelectSeq(norm.input, Accepted)
    IN  /\ Len(norm.out) = Min(Len(acc), maxSections)
        /\ \A i \in 1..Len(norm.out) :
             /\ norm.out[i].type = acc[i].type
             /\ acc[i].title.kind = "string" =>
                  /\ norm.out[i].title.len <= maxCharsPerField
                  /\ norm.out[i].title =
                       [acc[i].title EXCEPT !.len = Min(@, maxCharsPerField)]

C12_Witness ==
  /\ norm.called
  /\ norm.depth <= maxDepth
  /\ Len(SelectSeq(norm.input, Accepted)) > maxSections
  /\ Len(norm.out) = maxSections
  /\ norm.input[1].title.len > maxCharsPerField
  /\ norm.out[1].title.len = maxCharsPerField
  /\ norm.out[maxSections].type # norm.out[1].type

\* the child section lists of a container section, joined
Children(section) ==
  CASE section.type \in {"card", "stack"} -> ListOf(section.sections)
    [] section.type = "columns" -> NestedSections(ListOf(section.items))
    [] section.type = "tabset" -> NestedSections(ListOf(section.tabs))
    [] OTHER -> <<>>

\* every child list deeper than maxDepth is empty
RECURSIVE DepthBounded(_, _)
DepthBounded(sections, depth) ==
  \A i \in 1..Len(sections) :
    LET kids == Children(sections[i])
    IN  IF depth + 1 > maxDepth THEN kids = <<>> ELSE DepthBounded(kids, depth + 1)

\* levels of non-empty child lists below a section list
RECURSIVE Height(_)
Height(sections) ==
  LET hs == {IF Children(sections[i]) = <<>> THEN 0 ELSE 1 + Height(Children(sections[i])) :
               i \in 1..Len(sections)}
  IN  IF hs = {} THEN 0 ELSE CHOOSE h \in hs : \A g \in hs : g <= h

\* levels of nested nodes below a rendered node
RECURSIVE NodeHeight(_)
NodeHeight(node) ==
  LET hs == {1 + NodeHeight(node.kids[i]) : i \in 1..Len(node.kids)}
  IN  IF hs = {} THEN 0 ELSE CHOOSE h \in hs : \A g \in hs : g <= h

\* C13: in a normalizer output every child section list that lies deeper
\* than maxDepth is empty, and no node rendered from the output nests
\* sections deeper than the limit.
C13_DepthBounded ==
  norm.called =>
    /\ DepthBounded(norm.out, norm.depth)
    /\ \A i \in 1..Len(norm.out) :
         LET r == renderSection(norm.out[i])
         IN  r.status = "node" => NodeHeight(r.node) <= maxDepth - norm.depth

C13_Witness ==
  /\ norm.called
  /\ norm.depth = 0
  /\ Height(norm.input) > maxDepth
  /\ Height(norm.out) = maxDepth
  /\ NodeHeight(renderSection(norm.out[1]).node) = maxDepth

\* a normalized collection: within its cap and a prefix of the original
WithinCap(list, cap, original) ==
  list.kind = "seq" => Len(list.elems) <= cap /\ IsPrefix(list.elems, original.elems)

\* C14: after normalization every known collection field is within its cap
\* and a prefix of the original: FAQ items, other item lists, table rows,
\* tabs, form fields, and the options of every select field.  (The entries of
\* columns items and of tabs are rebuilt by the nested pass, so for them the
\* cap alone is stated.)
C14_CollectionCaps ==
  (norm.called /\ norm.depth <= maxDepth) =>
    LET acc == SelectSeq(norm.input, Accepted)
    IN  \A i \in 1..Len(norm.out) :
          LET o == norm.out[i]
              a == acc[i]
          IN  /\ o.type = "faq" => WithinCap(o.items, maxFaqItems, a.items)
              /\ o.type \notin {"faq", "comparison-table", "columns"} =>
                   WithinCap(o.items, maxItemsPerList, a.items)
              /\ o.type = "columns" => Len(ListOf(o.items)) <= maxItemsPerList
              /\ o.type = "comparison-table" => WithinCap(o.rows, maxRowsPerTable, a.rows)
              /\ o.type = "tabset" => Len(ListOf(o.tabs)) <= maxTabs
              /\ o.type = "form" =>
                   /\ WithinCap(o.fields, maxFields, a.fields)
                   /\ \A j \in 1..Len(ListOf(o.fields)) :
                        Len(ListOf(o.fields.elems[j].options)) <= maxOptionsPerSelect

----------------------------------------------------------------------------
(* Interactive sections.  A specification of this part renders one page   *)
(* holding one interactive section and then drives its listeners; widget  *)
(* holds what the renderer's closure and its DOM subtree hold.            *)

\* render({sections: [section]}) and the closure the section's renderer built
RenderWidget(section, closure) ==
  /\ widget.kind = "none"
  /\ lastOp.op # "render"
  /\ LET normalized == normalizeSections(<<section>>, 0)
         dom == AddAll(Dom(<<>>, 0, FALSE), normalized, onAction)
     IN  /\ mounted' = dom.mounted
         /\ sectionCount' = dom.sectionCount
         /\ lastOp' = [op |-> "render", page |-> Page("", <<section>>), threw |-> dom.threw]
         /\ Len(dom.mounted) = 1
         /\ widget' = closure
  /\ lastClick' = NoClick
  /\ UNCHANGED <<options, actionPolicy, allowedActions, onAction, theme, styleEl, nextEl>>
  /\ UNCHANGED <<streamVars, urlVars, normVars>>

----------------------------------------------------------------------------
(* RENDERERS.form                                                          *)
(*                                                                         *)
(* A field of the description is an entry with                             *)
(*   name       [given, text]: field.name when it is a string              *)
(*   ftype      field.type || 'text'                                       *)
(*   required   !!field.required                                           *)
(*   minLength, maxLength   numbers, in halves, or absent                  *)
(*   defaultValue, checked  the description-time state of the control      *)
(* A control value is [kind, text, checked]: a string or a boolean.  An    *)
(* error message is named by the rule it reports.                          *)

MaxFormFields == 2

NoName == [given |-> FALSE, text |-> ""]
Name(text) == [given |-> TRUE, text |-> text]

FormField(name, ftype, required, minLength, defaultValue) ==
  [kind |-> "obj", sections |-> NoItems, options |-> NoItems, name |-> name,
   ftype |-> ftype, required |-> required, minLength |-> minLength,
   maxLength |-> NoNumber, defaultValue |-> defaultValue, checked |-> FALSE]

StringValue(text) == [kind |-> "string", text |-> text, checked |-> FALSE]
BooleanValue(b) == [kind |-> "boolean", text |-> <<>>, checked |-> b]

\* String(value)
StringOf(value) ==
  IF value.kind = "string" THEN value.text
  ELSE IF value.checked THEN <<"t", "r", "u", "e">> ELSE <<"f", "a", "l", "s", "e">>

\* getFieldKey: safeId(field.name, 'field-' + i), i counted from 0
getFieldKey(field, i) ==
  IF field.name.given /\ field.name.text # "" THEN field.name.text
  ELSE "field-" \o ToString(i)

\* fields.forEach((field, i) => { if (!isPlainObject(field)) return; ...
\*   registry.push({ field, key, inputNode, baseInput, errorNode }) })
Registry(fields) ==
  LET at(i) == [field |-> fields[i], key |-> getFieldKey(fields[i], i - 1)]
      IsField(i) == fields[i].kind = "obj"
      kept == SelectSeq([i \in 1..Len(fields) |-> i], IsField)
  IN  [k \in 1..Len(kept) |-> at(kept[k])]

\* typeof r.field.name === 'string' ? r.field.name : r.key
NameOf(r) == IF r.field.name.given THEN r.field.name.text ELSE r.key

\* the control as the renderer leaves it:
\*   if (field.defaultValue) inputNode.value = String(field.defaultValue)
\*   if (field.checked === true) input.checked = true
InitialControl(field) ==
  IF field.ftype = "checkbox" THEN BooleanValue(field.checked)
  ELSE StringValue(field.defaultValue)

\* readControlValue(field, controlNode): the control's live state
readControlValue_default(field, control) == InitialControl(field)

readControlValue(field, control) ==
  IF field.ftype = "checkbox" THEN BooleanValue(control.checked)
  ELSE StringValue(control.text)

\* validateField(field, value): the messages, in rule order.  No field of
\* this model declares a pattern or has a number type, so those two rules
\* add nothing here.
validateField(field, value) ==
  LET s == IF field.ftype = "checkbox" THEN <<>> ELSE StringOf(value)
      required ==
        IF ~field.required THEN <<>>
        ELSE IF field.ftype = "checkbox"
          THEN IF value.kind = "boolean" /\ value.checked THEN <<>> ELSE <<"required">>
        ELSE IF Trim(StringOf(value)) = <<>> THEN <<"required">> ELSE <<>>
      tooShort ==
        IF field.minLength.kind = "number" /\ 2 * Len(s) < field.minLength.half
          THEN <<"minLength">> ELSE <<>>
      tooLong ==
        IF field.maxLength.kind = "number" /\ 2 * Len(s) > field.maxLength.half
          THEN <<"maxLength">> ELSE <<>>
  IN  required \o tooShort \o tooLong

\* the last registry position that assigns the key `name`
LastOf(registry, positions, name) ==
  CHOOSE k \in positions :
    /\ NameOf(registry[k]) = name
    /\ \A j \in positions : NameOf(registry[j]) = name => j <= k

\* collectValues(): registry.forEach((r) => { values[name] = readControlValue(...) })
collectValues(registry, controls) ==
  LET all == 1..Len(registry)
  IN  [name \in {NameOf(registry[k]) : k \in all} |->
         LET k == LastOf(registry, all, name)
         IN  readControlValue(registry[k].field, controls[k])]

\* validateAll(values): registry.forEach((r) => { const errs = validateField(r.field,
\*   values[name]); if (errs.length) { valid = false; errorsByName[name] = errs } })
validateAll(registry, values) ==
  LET errs(k) == validateField(registry[k].field, values[NameOf(registry[k])])
      failing == {k \in 1..Len(registry) : errs(k) # <<>>}
  IN  [valid |-> failing = {},
       errorsByName |-> [name \in {NameOf(registry[k]) : k \in failing} |->
                           errs(LastOf(registry, failing, name))]]

\* errorsByName is the object literal {} plus the failing names: a lookup
\* by a name it has no entry for finds what Object.prototype defines, the
\* function Object (length 1) under "constructor" and a function of length 0
\* under "toString".
\* !!errorsByName[name]
HasEntry(errorsByName, name) ==
  name \in DOMAIN errorsByName \/ name \in ObjectPrototypeKeys

\* (errorsByName[name] || []).length
EntryLength(errorsByName, name) ==
  IF name \in DOMAIN errorsByName THEN Len(errorsByName[name])
  ELSE IF name = "constructor" THEN 1
  ELSE 0

\* showErrors(errorsByName): aria-invalid, errorNode.textContent and
\* errorNode.style.display of every registry entry; errs[0] of an inherited
\* function is undefined, which leaves the text empty
showErrors(registry, errorsByName) ==
  [k \in 1..Len(registry) |->
     LET name == NameOf(registry[k])
         has == EntryLength(errorsByName, name) > 0
     IN  [ariaInvalid |-> IF has THEN "true" ELSE "false",
          textContent |-> IF has /\ name \in DOMAIN errorsByName
                            THEN errorsByName[name][1] ELSE "",
          display |-> IF has THEN "block" ELSE "none"]]

\* registry.find((r) => !!res.errorsByName[name]); 0 when there is none
firstInvalid(registry, errorsByName) ==
  LET hits == {k \in 1..Len(registry) : HasEntry(errorsByName, NameOf(registry[k]))}
  IN  IF hits = {} THEN 0 ELSE CHOOSE k \in hits : \A j \in hits : k <= j

NoResult == [valid |-> TRUE, values |-> <<>>, errorsByName |-> <<>>]

\* what RENDERERS.form builds: every control at its description-time state,
\* every error node hidden, no aria-invalid attribute yet
FormClosure(data) ==
  LET fields == Slice(ListOf(data.fields), maxFields)
      registry == Registry(fields)
  IN  [kind |-> "form",
       registry |-> registry,
       controls |-> [k \in 1..Len(registry) |-> InitialControl(registry[k].field)],
       errorNodes |-> [k \in 1..Len(registry) |->
                         [ariaInvalid |-> "", textContent |-> "", display |-> "none"]],
       focus |-> 0,
       last |-> "render",
       res |-> NoResult,
       calls |-> <<>>]

\* the user types into, or toggles, the control of registry entry k
EditControl(k, value) ==
  /\ widget.kind = "form"
  /\ k \in 1..Len(widget.registry)
  /\ value.kind = (IF widget.registry[k].field.ftype = "checkbox" THEN "boolean" ELSE "string")
  /\ widget.controls[k] # value
  /\ widget' = [widget EXCEPT !.controls[k] = value, !.last = "edit",
                              !.res = NoResult, !.calls = <<>>]
  /\ UNCHANGED <<sessionVars, streamVars, urlVars, normVars>>

\* form.addEventListener('submit', ...): collectValues, validateAll, showErrors,
\* ctx.onAction(submitAction, e, {formId, valid, values, errors}) when there is
\* a callback, and focus on the first invalid entry when the result is invalid
FormSubmit ==
  /\ widget.kind = "form"
  /\ LET values == collectValues(widget.registry, widget.controls)
         res == validateAll(widget.registry, values)
         target == firstInvalid(widget.registry, res.errorsByName)
     IN  widget' =
           [widget EXCEPT
              !.errorNodes = showErrors(widget.registry, res.errorsByName),
              !.calls = IF onAction
                          THEN <<[valid |-> res.valid, values |-> values,
                                  errors |-> res.errorsByName]>>
                          ELSE <<>>,
              !.res = [valid |-> res.valid, values |-> values,
                       errorsByName |-> res.errorsByName],
              !.focus = IF ~res.valid /\ target # 0 THEN target ELSE widget.focus,
              !.last = "submit"]
  /\ UNCHANGED <<sessionVars, streamVars, urlVars, normVars>>

\* the form descriptions and the control states of SpecForm
TextField(name, required, minLength, defaultValue) ==
  FormField(name, "text", required, minLength, defaultValue)
FieldPool ==
  {TextField(Name("a"), TRUE, NoNumber, <<>>),
   TextField(Name("a"), FALSE, NoNumber, <<>>),
   TextField(Name("b"), TRUE, Number(4), <<"x">>),
   TextField(NoName, TRUE, NoNumber, <<" ">>),
   TextField(Name("constructor"), FALSE, NoNumber, <<>>),
   FormField(Name("c"), "checkbox", TRUE, NoNumber, <<>>),
   NullItem}
FieldLists == UNION {[1..n -> FieldPool] : n \in 1..MaxFormFields}
EmptyForm == Section("form")
FormSection(fields) == [EmptyForm EXCEPT !.fields = Items(fields)]
ControlValues ==
  {StringValue(<<>>), StringValue(<<"x", "x">>),
   BooleanValue(TRUE), BooleanValue(FALSE)}

InitForm == InitSession(DefaultOptionsSet)

RenderForm(fields) ==
  RenderWidget(FormSection(fields),
               FormClosure(normalizeSections(<<FormSection(fields)>>, 0)[1]))

NextForm ==
  \/ \E fields \in FieldLists : RenderForm(fields)
  \/ \E k \in 1..MaxFormFields, value \in ControlValues : EditControl(k, value)
  \/ FormSubmit

SpecForm == InitForm /\ [][NextForm]_vars

\* registry entry k fails at least one rule on the live state of its control
FieldFails(k) ==
  LET r == widget.registry[k]
  IN  validateField(r.field, readControlValue(r.field, widget.controls[k])) # <<>>

FailingFields == {k \in 1..Len(widget.registry) : FieldFails(k)}

Submitted == widget.kind = "form" /\ widget.last = "submit"

\* C15: after a submit the error mapping has an entry for exactly the fields
\* that fail at least one rule on their live control value, and every field's
\* visible error state is updated in that submit: shown (aria-invalid true,
\* error node displayed) for every failing field, cleared for every other.
C15_ErrorsExactlyFailing ==
  Submitted =>
    /\ DOMAIN widget.res.errorsByName =
         {NameOf(widget.registry[k]) : k \in FailingFields}
    /\ \A k \in 1..Len(widget.registry) :
         /\ widget.errorNodes[k].display = (IF FieldFails(k) THEN "block" ELSE "none")
         /\ widget.errorNodes[k].ariaInvalid = (IF FieldFails(k) THEN "true" ELSE "false")

C17_FocusFirstInvalid ==
  [][(widget.kind = "form" /\ widget'.kind = "form" /\ widget'.last = "submit") =>
       IF widget'.res.valid
         THEN widget'.focus = widget.focus
         ELSE /\ FailingFields # {}
              /\ widget'.focus \in FailingFields
              /\ \A k \in FailingFields : widget'.focus <= k]_vars

----------------------------------------------------------------------------
(* RENDERERS.tabset                                                        *)
(*                                                                         *)
(* Indexes count from 0 as in the source; activeIndex, like every number   *)
(* of a description, is kept in halves, so 1 is the declared value 0.5.    *)
(* Of each tab the closure holds                                           *)
(*   selected   aria-selected is 'true' (with it: the active class and     *)
(*              tabindex '0')                                              *)
(*   hidden     panel.hidden                                               *)
(* and focus is the index of the tab button that has input focus, or -1.   *)

MaxTabCount == 3

\* a % b of JavaScript: the sign of the result is the sign of a
Rem(a, b) == IF a >= 0 THEN a % b ELSE 0 - ((0 - a) % b)

\* Math.max(0, Math.min(x, tabs.length - 1)), in halves
ClampIndex(half, n) == Max(0, Min(half, 2 * (n - 1)))

\* i === activeIndex
IsActive(i, activeIndex) == 2 * i = activeIndex

NoFocus == 0 - 1

\* what RENDERERS.tabset builds from its tabs and data.activeIndex
TabsetClosure(data) ==
  LET n == Len(Slice(ListOf(data.tabs), maxTabs))
      activeIndex == IF data.activeIndex.kind = "number"
                       THEN ClampIndex(data.activeIndex.half, n) ELSE 0
  IN  [kind |-> "tabset",
       n |-> n,
       activeIndex |-> activeIndex,
       selected |-> [i \in 1..n |-> IsActive(i - 1, activeIndex)],
       hidden |-> [i \in 1..n |-> ~IsActive(i - 1, activeIndex)],
       focus |-> NoFocus,
       last |-> "render"]

\* setActive(nextIndex, focus), nextIndex in halves
setActive(w, nextIndex, focus) ==
  LET activeIndex == ClampIndex(nextIndex, w.n)
      hit == {i \in 0..(w.n - 1) : IsActive(i, activeIndex)}
  IN  [w EXCEPT !.activeIndex = activeIndex,
                !.selected = [i \in 1..w.n |-> IsActive(i - 1, activeIndex)],
                !.hidden = [i \in 1..w.n |-> ~IsActive(i - 1, activeIndex)],
                !.focus = IF focus /\ hit # {} THEN CHOOSE i \in hit : TRUE ELSE w.focus]

\* the keydown handler's next index for a key it handles, in halves
KeyTarget_noWrap(key, current, n) ==
  IF key \in {"ArrowRight", "ArrowDown"} THEN Rem(current + 2, 2 * n)
  ELSE IF key \in {"ArrowLeft", "ArrowUp"} THEN Rem(current - 2, 2 * n)
  ELSE IF key = "Home" THEN 0
  ELSE 2 * (n - 1)

KeyTarget(key, current, n) ==
  IF key \in {"ArrowRight", "ArrowDown"} THEN Rem(current + 2, 2 * n)
  ELSE IF key \in {"ArrowLeft", "ArrowUp"} THEN Rem(current - 2 + 2 * n, 2 * n)
  ELSE IF key = "Home" THEN 0
  ELSE 2 * (n - 1)

NavKeys == {"ArrowRight", "ArrowDown", "ArrowLeft", "ArrowUp", "Home", "End"}
Keys == NavKeys \cup {"Enter"}

\* btn.addEventListener('click', () => setActive(index, false)); the click
\* also gives the button input focus
TabClick(index) ==
  /\ widget.kind = "tabset"
  /\ index \in 0..(widget.n - 1)
  /\ widget' = [setActive(widget, 2 * index, FALSE) EXCEPT !.focus = index, !.last = "click"]
  /\ UNCHANGED <<sessionVars, streamVars, urlVars, normVars>>

\* the user moves input focus into the tab bar with the keyboard: it goes to
\* the tab button whose tabindex is '0', when there is one
FocusTabBar ==
  /\ widget.kind = "tabset"
  /\ widget.focus = NoFocus
  /\ \E i \in 0..(widget.n - 1) :
       /\ widget.selected[i + 1]
       /\ widget' = [widget EXCEPT !.focus = i, !.last = "focus"]
  /\ UNCHANGED <<sessionVars, streamVars, urlVars, normVars>>

\* tabBar.addEventListener('keydown', ...): a key pressed while a tab button
\* has input focus
TabKeyDown(key) ==
  /\ widget.kind = "tabset"
  /\ widget.focus # NoFocus
  /\ widget' =
       [(IF key \in NavKeys
           THEN setActive(widget, KeyTarget(key, widget.activeIndex, widget.n), TRUE)
           ELSE widget)
        EXCEPT !.last = key]
  /\ UNCHANGED <<sessionVars, streamVars, urlVars, normVars>>

\* the tabsets of SpecTabs: 1..MaxTabCount tabs, activeIndex absent or any
\* multiple of 0.5 from -1 to MaxTabCount
EmptyTabset == Section("tabset")
TabsetSection(n, activeIndex) ==
  [EmptyTabset EXCEPT !.tabs = Items([i \in 1..n |-> ObjItem]), !.activeIndex = activeIndex]
DeclaredIndexes == {NoNumber} \cup {Number(half) : half \in (0 - 2)..(2 * MaxTabCount)}

InitTabs == InitSession({o \in DefaultOptionsSet : ~o.onAction})

RenderTabset(n, activeIndex) ==
  RenderWidget(TabsetSection(n, activeIndex),
               TabsetClosure(normalizeSections(<<TabsetSection(n, activeIndex)>>, 0)[1]))

NextTabs ==
  \/ \E n \in 1..MaxTabCount, activeIndex \in DeclaredIndexes : RenderTabset(n, activeIndex)
  \/ \E index \in 0..(MaxTabCount - 1) : TabClick(index)
  \/ FocusTabBar
  \/ \E key \in Keys : TabKeyDown(key)

SpecTabs == InitTabs /\ [][NextTabs]_vars

\* the tabs marked selected and the panels that are visible
SelectedTabs == {i \in 0..(widget.n - 1) : widget.selected[i + 1]}
VisiblePanels == {i \in 0..(widget.n - 1) : ~widget.hidden[i + 1]}

\* C18: in a rendered tabset (at least one tab, any declared activeIndex),
\* after construction and after any clicks and keys, exactly one panel is
\* visible, exactly one tab is marked selected, and they have the same index.
C18_OnePanelVisible ==
  widget.kind = "tabset" =>
    /\ Cardinality(VisiblePanels) = 1
    /\ Cardinality(SelectedTabs) = 1
    /\ VisiblePanels = SelectedTabs

\* the index the claim names for a navigation key pressed at tab `current`
NamedTarget(key, current, n) ==
  IF key \in {"ArrowRight", "ArrowDown"} THEN (current + 1) % n
  ELSE IF key \in {"ArrowLeft", "ArrowUp"} THEN (current + n - 1) % n
  ELSE IF key = "Home" THEN 0
  ELSE n - 1

----------------------------------------------------------------------------
(* RENDERERS.faq: the disclosure of each item.  Of item i the closure      *)
(* holds open[i], whether faqItem has the class ap-faq-item--open, and     *)
(* ariaExpanded[i], the aria-expanded attribute of its question button;    *)
(* last is the index, from 0, of the question clicked last.                *)

MaxFaqCount == 4

NotClicked == 0 - 1

\* what RENDERERS.faq builds: className 'ap-faq-item', 'aria-expanded': 'false'
FaqClosure(data) ==
  LET n == Len(ListOf(data.items))
  IN  [kind |-> "faq",
       n |-> n,
       open |-> [i \in 1..n |-> FALSE],
       ariaExpanded |-> [i \in 1..n |-> "false"],
       last |-> NotClicked]

\* the click listener of question `index`:
\*   const isOpen = faqItem.classList.toggle('ap-faq-item--open');
\*   qBtn.setAttribute('aria-expanded', isOpen ? 'true' : 'false')
toggle_accordion(w, index) ==
  LET isOpen == ~w.open[index + 1]
  IN  [w EXCEPT !.open = [i \in 1..w.n |-> i = index + 1 /\ isOpen],
                !.ariaExpanded = [i \in 1..w.n |->
                                    IF i = index + 1 /\ isOpen THEN "true" ELSE "false"]]

toggle(w, index) ==
  LET isOpen == ~w.open[index + 1]
  IN  [w EXCEPT !.open[index + 1] = isOpen,
                !.ariaExpanded[index + 1] = IF isOpen THEN "true" ELSE "false"]

FaqClick(index) ==
  /\ widget.kind = "faq"
  /\ index \in 0..(widget.n - 1)
  /\ widget' = [toggle(widget, index) EXCEPT !.last = index]
  /\ UNCHANGED <<sessionVars, streamVars, urlVars, normVars>>

EmptyFaq == Section("faq")
FaqSection(n) == [EmptyFaq EXCEPT !.items = Items([i \in 1..n |-> ObjItem])]

InitFaq == InitSession(DefaultOptionsSet)

RenderFaq(n) ==
  RenderWidget(FaqSection(n), FaqClosure(normalizeSections(<<FaqSection(n)>>, 0)[1]))

NextFaq ==
  \/ \E n \in 1..MaxFaqCount : RenderFaq(n)
  \/ \E index \in 0..(MaxFaqCount - 1) : FaqClick(index)

SpecFaq == InitFaq /\ [][NextFaq]_vars

\* C20: FAQ disclosures are independent.  Every item is closed until a
\* question is clicked; a click on a question inverts the open state of its
\* own item and leaves the open state and aria-expanded of every other item
\* as they were; and always each item's aria-expanded says whether it is open.
C20_FaqIndependent ==
  /\ [](widget.kind = "faq" =>
          /\ widget.last = NotClicked => \A i \in 1..widget.n : ~widget.open[i]
          /\ \A i \in 1..widget.n :
               widget.ariaExpanded[i] = (IF widget.open[i] THEN "true" ELSE "false"))
  /\ [][(widget.kind = "faq" /\ widget'.kind = "faq") =>
          \A i \in 1..widget.n :
            IF i = widget'.last + 1
              THEN widget'.open[i] = ~widget.open[i]
              ELSE /\ widget'.open[i] = widget.open[i]
                   /\ widget'.ariaExpanded[i] = widget.ariaExpanded[i]]_vars

\* the middle question was clicked last and is closed again, between two
\* items that are still open
C20_Witness ==
  /\ widget.kind = "faq"
  /\ widget.n >= 3
  /\ widget.last = 1
  /\ widget.open[1] /\ ~widget.open[2] /\ widget.open[3]
  /\ widget.ariaExpanded[1] = "true" /\ widget.ariaExpanded[2] = "false"

----------------------------------------------------------------------------
(* The decoders on long input (SpecBuf).  Text of hundreds of thousands of *)
(* characters is kept as a sequence of pieces [kind, len], and of each     *)
(* text a decoder holds, its length and what decides the next parse:       *)
(*   head     {"sections":[                                                *)
(*   open     {"type":"text","title":"   (ends inside the title string)    *)
(*   fill     len characters of the title, none of them a quote, a brace,  *)
(*            a bracket, a backslash or a line break                       *)
(*   end      "}                                                           *)
(*   sep      ,                                                            *)
(*   newline  \n                                                           *)
(*   tail     ]}                                                           *)
(* Each decoder's feed is taken piece by piece; what a piece does is what  *)
(* the character loop does over its characters.                            *)

MaxFills == 3
MaxChunkPieces == 3

Piece(kind, len) == [kind |-> kind, len |-> len]
HeadPiece == Piece("head", Len(<<"{">> \o SectionsKey \o <<":", "[">>))
OpenPiece == Piece("open", 24)
EndPiece == Piece("end", 2)
SepPiece == Piece("sep", 1)
NewlinePiece == Piece("newline", 1)
TailPiece == Piece("tail", 2)
FillSizes == {1, bufferKeep, bufferLimit}

RECURSIVE TotalLen(_)
TotalLen(pieces) == IF pieces = <<>> THEN 0 ELSE Head(pieces).len + TotalLen(Tail(pieces))

\* x.length > 250000 ? x.slice(-8000) : x, on a length
BoundLen(len) == IF len > bufferLimit THEN bufferKeep ELSE len

\* the fields of both decoders, texts by length:
\*   buffer, currentObject, lineBuffer   lengths
\*   fill        the title characters in currentObject / lineBuffer
\*   lineWhole   lineBuffer still starts where its line starts
\*   lineClosed  the object on the line has been closed
NewLengths ==
  [buffer |-> 0, insideSections |-> FALSE, braceDepth |-> 0, inString |-> FALSE,
   currentObject |-> 0, fill |-> 0, lineBuffer |-> 0, lineWhole |-> TRUE,
   lineClosed |-> FALSE]

\* the section a decoded object with `fill` title characters is
TextSection == Section("text")
DecodedText(fill) == [TextSection EXCEPT !.title = Str(fill)]

\* the character loop of StreamingPageParser.feed over one piece (no text of
\* this specification nests objects or has a brace of its own at depth 0)
FeedPiece(d, piece, hasOnAction) ==
  LET p == d.p
      counted == p.braceDepth > 0
  IN  CASE piece.kind = "head" ->
             Decoding([p EXCEPT !.insideSections = TRUE], d.dom)
        [] piece.kind = "open" ->
             Decoding([p EXCEPT !.currentObject = IF p.braceDepth = 0 THEN piece.len ELSE 1,
                                !.braceDepth = @ + 1, !.inString = TRUE, !.fill = 0], d.dom)
        [] piece.kind = "fill" ->
             Decoding([p EXCEPT !.currentObject = IF counted THEN @ + piece.len ELSE @,
                                !.fill = IF counted THEN @ + piece.len ELSE @], d.dom)
        [] piece.kind = "end" ->
             IF p.braceDepth - 1 = 0
             THEN Decoding([p EXCEPT !.braceDepth = 0, !.inString = FALSE,
                                     !.currentObject = 0, !.fill = 0],
                           [onSection(d.dom, DecodedText(p.fill), hasOnAction)
                              EXCEPT !.threw = FALSE])
             ELSE Decoding([p EXCEPT !.braceDepth = @ - 1, !.inString = FALSE], d.dom)
        [] piece.kind = "tail" ->
             Decoding([p EXCEPT !.insideSections = (p.braceDepth # 0)], d.dom)
        [] OTHER -> d

\* the line loop of NDJSONSectionParser.feed over one piece, and flush
LinePiece(d, piece, hasOnAction) ==
  LET p == d.p
  IN  IF piece.kind = "newline"
      THEN Decoding([p EXCEPT !.lineBuffer = 0, !.lineWhole = TRUE, !.lineClosed = FALSE,
                              !.fill = 0],
                    IF p.lineWhole /\ p.lineClosed
                      THEN [onSection(d.dom, DecodedText(p.fill), hasOnAction)
                              EXCEPT !.threw = FALSE]
                      ELSE d.dom)
      ELSE Decoding([p EXCEPT !.lineBuffer = @ + piece.len,
                              !.lineClosed = (piece.kind = "end"),
                              !.fill = IF piece.kind = "fill" THEN @ + piece.len ELSE @],
                    d.dom)

RECURSIVE PieceLoop(_, _, _, _)
PieceLoop(d, pieces, mode, hasOnAction) ==
  IF d.dom.threw \/ pieces = <<>> THEN d
  ELSE PieceLoop(IF mode = "json" THEN FeedPiece(d, Head(pieces), hasOnAction)
                 ELSE LinePiece(d, Head(pieces), hasOnAction),
                 Tail(pieces), mode, hasOnAction)

\* feed(chunk) of either decoder: the loop, then the buffer bound
FeedPieces(p, dom, pieces, mode, hasOnAction) ==
  LET d == PieceLoop(Decoding(p, dom), pieces, mode, hasOnAction)
  IN  IF mode = "json"
      THEN Decoding([d.p EXCEPT !.buffer = BoundLen(p.buffer + TotalLen(pieces))], d.dom)
      ELSE Decoding([d.p EXCEPT !.lineBuffer = BoundLen(@),
                                !.lineWhole = @ /\ d.p.lineBuffer <= bufferLimit], d.dom)

\* the texts of SpecBuf: one object with any fills, closed or left open,
\* and a short object after it; for NDJSON one object per line, the last
\* line with or without its line break
FillLists == UNION {[1..n -> {Piece("fill", size) : size \in FillSizes}] : n \in 0..MaxFills}
ShortObject == <<OpenPiece, Piece("fill", 1), EndPiece>>
BigTexts ==
  {[mode |-> "json", closed |-> 2,
    pieces |-> <<HeadPiece, OpenPiece>> \o f \o <<EndPiece, SepPiece>> \o ShortObject
                 \o <<TailPiece>>] : f \in FillLists}
  \cup {[mode |-> "json", closed |-> 0, pieces |-> <<HeadPiece, OpenPiece>> \o f] :
          f \in FillLists}
  \cup {[mode |-> "ndjson", closed |-> 2,
         pieces |-> <<OpenPiece>> \o f \o <<EndPiece, NewlinePiece>> \o ShortObject \o nl] :
          f \in FillLists, nl \in {<<>>, <<NewlinePiece>>}}
  \cup {[mode |-> "ndjson", closed |-> 0, pieces |-> <<OpenPiece>> \o f] : f \in FillLists}

InitBuf == InitSession({o \in DefaultOptionsSet : ~o.onAction})

\* renderStream / renderStreamNDJSON up to the first read
StartBuf(text) ==
  /\ pc = "idle"
  /\ mounted' = <<>>
  /\ sectionCount' = 0
  /\ parser' = NewLengths
  /\ stream' = [mode |-> text.mode, closed |-> text.closed, rest |-> text.pieces, fed |-> 0]
  /\ pc' = "feeding"
  /\ lastOp' = [op |-> "renderStream", page |-> EmptyPage, threw |-> FALSE]
  /\ lastClick' = NoClick
  /\ UNCHANGED <<options, actionPolicy, allowedActions, onAction, theme, styleEl, nextEl>>
  /\ UNCHANGED <<urlVars, widgetVars, normVars>>

\* _consumeStream: one chunk read, the next k pieces, handed to parser.feed
ReadPieces(k) ==
  /\ pc = "feeding"
  /\ k <= Len(stream.rest)
  /\ LET pieces == SubSeq(stream.rest, 1, k)
         d == FeedPieces(parser, Dom(mounted, sectionCount, FALSE), pieces, stream.mode,
                         onAction)
     IN  /\ parser' = d.p
         /\ mounted' = d.dom.mounted
         /\ sectionCount' = d.dom.sectionCount
         /\ stream' = [stream EXCEPT !.rest = SubSeq(@, k + 1, Len(@)),
                                     !.fed = @ + TotalLen(pieces)]
  /\ UNCHANGED <<pc, lastOp, lastClick>>
  /\ UNCHANGED <<options, actionPolicy, allowedActions, onAction, theme, styleEl, nextEl>>
  /\ UNCHANGED <<urlVars, widgetVars, normVars>>

\* the source is exhausted; renderStreamNDJSON calls parser.flush()
EndOfPieces ==
  /\ pc = "feeding"
  /\ stream.rest = <<>>
  /\ LET dom == Dom(mounted, sectionCount, FALSE)
         d == IF stream.mode = "ndjson"
              THEN LinePiece(Decoding(parser, dom), NewlinePiece, onAction)
              ELSE Decoding(parser, dom)
     IN  /\ parser' = d.p
         /\ mounted' = d.dom.mounted
         /\ sectionCount' = d.dom.sectionCount
  /\ pc' = "done"
  /\ UNCHANGED <<stream, lastOp, lastClick>>
  /\ UNCHANGED <<options, actionPolicy, allowedActions, onAction, theme, styleEl, nextEl>>
  /\ UNCHANGED <<urlVars, widgetVars, normVars>>

NextBuf ==
  \/ \E text \in BigTexts : StartBuf(text)
  \/ \E k \in 1..MaxChunkPieces : ReadPieces(k)
  \/ EndOfPieces

SpecBuf == InitBuf /\ [][NextBuf]_vars

\* C21: the newline-delimited decoder's output is a function of the
\* concatenated input only.  Every line of a text of SpecBuf is a well-formed
\* bare section object, so however the text is split into chunks, once the
\* stream has ended and flush has run, every line has been emitted, in order.
C21_ChunkingIndependent ==
  (pc = "done" /\ stream.mode = "ndjson" /\ stream.closed > 0) =>
    TypesOf(mounted) = [i \in 1..stream.closed |-> "text"]

\* the text a decoder retains
Retained == parser.buffer + parser.currentObject + parser.lineBuffer

RetainedBound == 2 * bufferLimit

\* C26: after every feed call, on either decoder and for any input, the text
\* the decoder retains (search or line buffer plus the partially accumulated
\* object) is within a fixed bound, whatever the amount of input fed so far.
C26_BoundedRetention ==
  pc = "feeding" => Retained <= RetainedBound

----------------------------------------------------------------------------
(* Dispatch with host registries (SpecDispatch).  A session is constructed *)
(* with options.customRenderers and options.componentCatalog, each the set *)
(* of type names it has an entry for (the catalog may be absent), and one  *)
(* section of some type is rendered.  None of the type names of this part  *)
(* is a key of Object.prototype.                                           *)

HostTypes == {"hero", "gadget", "chart"}
NoCatalog == [given |-> FALSE, types |-> {}]
Catalog(types) == [given |-> TRUE, types |-> types]

\* _isKnownType(type) of a session with these registries
isKnownTypeOf(customRenderers, componentCatalog, type) ==
  IF type = "" THEN FALSE
  ELSE IF type \in RendererKeys THEN TRUE
  ELSE IF type \in customRenderers THEN TRUE
  ELSE componentCatalog.given /\ type \in componentCatalog.types

\* renderSection: const custom = this.customRenderers[type];
\* const renderer = custom || RENDERERS[type]; if (!renderer) return null
resolveRenderer(customRenderers, componentCatalog, type) ==
  IF type \in customRenderers THEN "custom"
  ELSE IF type \in RendererKeys THEN "builtin"
  ELSE "null"

InitDispatch == InitSession({o \in DefaultOptionsSet : ~o.onAction})

\* new AgentPages(target, {customRenderers, componentCatalog})
Construct(customRenderers, componentCatalog) ==
  /\ widget.kind = "none"
  /\ widget' = [kind |-> "session", customRenderers |-> customRenderers,
                componentCatalog |-> componentCatalog]
  /\ UNCHANGED <<sessionVars, streamVars, urlVars, normVars>>

\* render({sections: [{type}]}) on that session: the normalizer keeps the
\* section when its type is known, addSection mounts what dispatch returns
RenderTyped(type) ==
  /\ widget.kind = "session"
  /\ LET known == isKnownTypeOf(widget.customRenderers, widget.componentCatalog, type)
         renderer == IF known
                       THEN resolveRenderer(widget.customRenderers, widget.componentCatalog,
                                            type)
                       ELSE "null"
     IN  /\ widget' = [kind |-> "dispatched", customRenderers |-> widget.customRenderers,
                       componentCatalog |-> widget.componentCatalog, type |-> type,
                       known |-> known, renderer |-> renderer]
         /\ mounted' = IF renderer = "null" THEN <<>> ELSE <<Node(type, <<>>)>>
         /\ sectionCount' = IF renderer = "null" THEN 0 ELSE 1
  /\ lastOp' = [op |-> "render", page |-> EmptyPage, threw |-> FALSE]
  /\ lastClick' = NoClick
  /\ UNCHANGED <<options, actionPolicy, allowedActions, onAction, theme, styleEl, nextEl>>
  /\ UNCHANGED <<streamVars, urlVars, normVars>>

NextDispatch ==
  \/ \E custom \in SUBSET HostTypes, catalog \in {NoCatalog} \cup {Catalog(t) : t \in SUBSET HostTypes} :
       Construct(custom, catalog)
  \/ \E type \in HostTypes : RenderTyped(type)

SpecDispatch == InitDispatch /\ [][NextDispatch]_vars

\* C22: dispatch resolves a section's type in priority order: the host's
\* custom renderer for that type, else the built-in renderer, else the
\* component-catalog entry; a type present only in the catalog is rendered by
\* the catalog entry, and nothing is mounted only when none of the three match.
C22_DispatchPriority ==
  widget.kind = "dispatched" =>
    /\ widget.renderer =
         (IF widget.type \in widget.customRenderers THEN "custom"
          ELSE IF widget.type \in RendererKeys THEN "builtin"
          ELSE IF widget.componentCatalog.given /\ widget.type \in widget.componentCatalog.types
            THEN "catalog"
          ELSE "null")
    /\ (mounted = <<>>) <=>
         /\ widget.type \notin widget.customRenderers
         /\ widget.type \notin RendererKeys
         /\ ~(widget.componentCatalog.given /\ widget.type \in widget.componentCatalog.types)

----------------------------------------------------------------------------
(* sanitizeActionName on its own (SpecName): the function applied to names *)
(* of up to MaxNameLen characters and to names at the length cap.          *)

MaxNameLen == 3
NameAlphabet == {"a", ":", ".", "/", " ", "<"}
ShortNames == UNION {[1..n -> NameAlphabet] : n \in 0..MaxNameLen}
LongNames == {[i \in 1..(maxActionName - 1) |-> "a"] \o s : s \in {t \in ShortNames : Len(t) <= 2}}

InitName == InitSession({o \in DefaultOptionsSet : ~o.onAction})

\* sanitizeActionName(name); each behaviour follows one call
SanitizeName(name) ==
  /\ widget.kind = "none"
  /\ widget' = [kind |-> "name", name |-> name, result |-> sanitizeActionName(name)]
  /\ UNCHANGED <<sessionVars, streamVars, urlVars, normVars>>

NextName == \E name \in ShortNames \cup LongNames : SanitizeName(name)

SpecName == InitName /\ [][NextName]_vars

\* the allowlist the Security model documents: [a-zA-Z0-9:_-]
DocumentedNameChars == AlphaNum \cup {":", "_", "-"}

\* C23: for every input, the result of sanitizeActionName is at most
\* maxActionName characters long and holds only characters of [a-zA-Z0-9:_-];
\* every other character has been replaced by the placeholder "_".
C23_ActionNameAlphabet ==
  widget.kind = "name" =>
    /\ Len(widget.result) <= maxActionName
    /\ \A i \in 1..Len(widget.result) : widget.result[i] \in DocumentedNameChars

----------------------------------------------------------------------------
(* The page description's style override (SpecStyle).  render assigns      *)
(* String(pageData.style.background) to the root container's background    *)
(* style; clear() leaves the root container's style alone.  widget holds   *)
(* the string last assigned to that style property.                        *)

\* the background names the README documents
BackgroundNames == {"default", "muted", "transparent"}
\* pageData.style.background: "" for a page without the override
BackgroundInputs == BackgroundNames \cup {"", "red", "url(https://example.net/p.png)"}

Unstyled == [kind |-> "root", background |-> ""]

StyledPages == {p \in Pages : p.theme = "" /\ Len(p.sections) <= 2}

InitStyle == InitSession({o \in DefaultOptionsSet : ~o.onAction})

\* render(pageData) with pageData.style = {background}
RenderStyled(page, background) ==
  /\ lastOp.op # "render"
  /\ widget' = IF background # ""
                 THEN [kind |-> "root", background |-> background]
                 ELSE IF widget.kind = "root" THEN widget ELSE Unstyled
  /\ LET normalized == normalizeSections(page.sections, 0)
         dom == AddAll(Dom(<<>>, 0, FALSE), normalized, onAction)
     IN  /\ mounted' = dom.mounted
         /\ sectionCount' = dom.sectionCount
         /\ lastOp' = [op |-> "render", page |-> page, threw |-> dom.threw]
  /\ lastClick' = NoClick
  /\ UNCHANGED <<options, actionPolicy, allowedActions, onAction, theme, styleEl, nextEl>>
  /\ UNCHANGED <<streamVars, urlVars, normVars>>

NextStyle ==
  \/ \E page \in StyledPages, background \in BackgroundInputs : RenderStyled(page, background)
  \/ Clear

SpecStyle == InitStyle /\ [][NextStyle]_vars

\* C24: no caller string is interpreted as style: the style.background
\* override is restricted to the fixed background names, so the root's
\* background style only ever holds one of them (or was never assigned).
C24_BackgroundRestricted ==
  widget.kind = "root" => widget.background \in BackgroundNames \cup {""}

----------------------------------------------------------------------------
(* Text fields in the output tree (SpecInject).  A text field holds "" (the *)
(* field is absent) or one of Payloads.  An output tree is the sequence of  *)
(* its elements in document order; an element is                            *)
(*   tag, attrs   its name and its attributes, a set of <<name, value>>     *)
(*   text         its text content, held by one text node                   *)
(*   parsed       the elements a markup parser made inside it               *)
(* No payload is longer than maxCharsPerField, so clampString returns each  *)
(* unchanged.                                                               *)

Markup == "<img src=x onerror=alert(1)>"
QuoteBreak == "\" onmouseover=\"alert(1)"
ScriptRef == "javascript:alert(1)"
Payloads == {"hello", Markup, QuoteBreak, ScriptRef}
TextFields == Payloads \cup {""}

TreeElement(tag, attrs, text, parsed) ==
  [tag |-> tag, attrs |-> attrs, text |-> text, parsed |-> parsed]

\* what an HTML parser builds from a string: its elements and the text left
ParseMarkup(s) ==
  IF s = Markup
    THEN [text |-> "",
          parsed |-> <<TreeElement("img", {<<"src", "x">>, <<"onerror", "alert(1)">>}, "", <<>>)>>]
    ELSE [text |-> s, parsed |-> <<>>]

\* sanitizeText(str): div.textContent = clampString(str); return div.textContent
sanitizeTextOf(str) == str

\* el(tag, attrs, children) with a string for children: setAttribute(key, String(val))
\* for each attribute, node.textContent = children
el_innerHTML(tag, attrs, children) ==
  TreeElement(tag, attrs, ParseMarkup(children).text, ParseMarkup(children).parsed)

el(tag, attrs, children) == TreeElement(tag, attrs, children, <<>>)

Or(a, b) == IF a # "" THEN a ELSE b

\* RENDERERS.text
RENDERERS_textTree(data) ==
  <<el("p", {<<"class", "ap-text ap-section">>}, sanitizeTextOf(Or(data.text, "")))>>

\* RENDERERS['image-text']; data.image is "" or a URL that sanitizeUrl lets through
RENDERERS_imageTextTree(data) ==
  <<el("div", {<<"class", "ap-section">>}, ""),
    el("div", {<<"class", "ap-image-text">>}, "")>>
  \o (IF data.image # ""
        THEN <<el("div", {<<"class", "ap-image-text-image">>}, ""),
               el("img", {<<"src", data.image>>, <<"alt", sanitizeTextOf(Or(data.alt, ""))>>}, "")>>
        ELSE <<el("div", {<<"class", "ap-image-text-image">>},
                  sanitizeTextOf(Or(data.placeholder, "Image")))>>)
  \o <<el("div", {<<"class", "ap-image-text-content">>}, "")>>
  \o (IF data.title # ""
        THEN <<el("h3", {<<"class", "ap-image-text-title">>}, sanitizeTextOf(data.title))>>
        ELSE <<>>)
  \o (IF data.body # ""
        THEN <<el("p", {<<"class", "ap-image-text-body">>}, sanitizeTextOf(data.body))>>
        ELSE <<>>)

\* RENDERERS.tabset for a section with one tab that holds no sections
RENDERERS_tabsetTree(data) ==
  <<el("div", {<<"class", "ap-section">>}, "")>>
  \o (IF data.heading # ""
        THEN <<el("h2", {<<"class", "ap-heading ap-heading--2 ap-tabset-header">>},
                  sanitizeTextOf(data.heading))>>
        ELSE <<>>)
  \o <<el("div", {<<"class", "ap-tabset-tabs">>, <<"role", "tablist">>,
                  <<"aria-orientation", "horizontal">>,
                  <<"aria-label", sanitizeTextOf(Or(data.ariaLabel, Or(data.heading, "Tabs")))>>},
          ""),
       el("button", {<<"type", "button">>, <<"class", "ap-tabset-tab ap-tabset-tab--active">>,
                     <<"role", "tab">>, <<"id", "tab-0">>, <<"aria-selected", "true">>,
                     <<"aria-controls", "panel-0">>, <<"tabindex", "0">>},
          sanitizeTextOf(Or(data.label, "Tab 1"))),
       el("div", {<<"class", "ap-tabset-panels">>}, ""),
       el("div", {<<"class", "ap-tabset-panel">>, <<"role", "tabpanel">>, <<"id", "panel-0">>,
                  <<"aria-labelledby", "tab-0">>}, "")>>

\* RENDERERS.form: the subtree of one text input named "email" (key "email")
RENDERERS_formFieldTree(data) ==
  <<el("div", {}, ""),
    el("label", {<<"class", "ap-form-field-label">>, <<"for", "form-email">>},
       sanitizeTextOf(Or(data.label, "email"))),
    el("input", {<<"class", "ap-form-field-input">>, <<"id", "form-email">>, <<"type", "text">>,
                 <<"name", "email">>,
                 <<"placeholder", IF data.placeholder # "" THEN sanitizeTextOf(data.placeholder)
                                  ELSE "">>,
                 <<"aria-describedby",
                   IF data.helpText # "" THEN "form-help-email form-err-email"
                   ELSE "form-err-email">>}, "")>>
  \o (IF data.helpText # ""
        THEN <<el("div", {<<"class", "ap-form-field-help">>, <<"id", "form-help-email">>},
                  sanitizeTextOf(data.helpText))>>
        ELSE <<>>)
  \o <<el("div", {<<"class", "ap-form-field-error">>, <<"id", "form-err-email">>,
                  <<"role", "alert">>, <<"aria-live", "polite">>}, "")>>

TextData == [type : {"text"}, text : TextFields]
ImageTextData ==
  [type : {"image-text"}, image : {"", "https://example.net/a.png"}, alt : TextFields,
   placeholder : {"", Markup}, title : {"", QuoteBreak}, body : {"", ScriptRef}]
TabsetData == [type : {"tabset"}, heading : TextFields, ariaLabel : TextFields, label : {"", Markup}]
FormFieldData == [type : {"form"}, label : TextFields, placeholder : TextFields, helpText : {"", Markup}]

InitInject == InitSession({o \in DefaultOptionsSet : ~o.onAction})

\* render({sections: [data]}); each behaviour follows one render
RenderTree(data, tree) ==
  /\ widget.kind = "none"
  /\ widget' = [kind |-> "tree", data |-> data, tree |-> tree]
  /\ mounted' = <<Node(data.type, <<>>)>>
  /\ sectionCount' = 1
  /\ lastOp' = [op |-> "render", page |-> EmptyPage, threw |-> FALSE]
  /\ lastClick' = NoClick
  /\ UNCHANGED <<options, actionPolicy, allowedActions, onAction, theme, styleEl, nextEl>>
  /\ UNCHANGED <<streamVars, urlVars, normVars>>

NextInject ==
  \/ \E data \in TextData : RenderTree(data, RENDERERS_textTree(data))
  \/ \E data \in ImageTextData : RenderTree(data, RENDERERS_imageTextTree(data))
  \/ \E data \in TabsetData : RenderTree(data, RENDERERS_tabsetTree(data))
  \/ \E data \in FormFieldData : RenderTree(data, RENDERERS_formFieldTree(data))

SpecInject == InitInject /\ [][NextInject]_vars

\* the caller strings in the text fields of a section
TextsOf(data) ==
  {data[f] : f \in (DOMAIN data) \ {"type", "image"}} \ {""}

\* the tags and attribute names these renderers use
TagVocabulary == {"div", "p", "h2", "h3", "img", "button", "label", "input"}
AttrVocabulary == {"class", "src", "alt", "role", "aria-orientation", "aria-label", "type", "id",
                   "aria-selected", "aria-controls", "tabindex", "aria-labelledby", "for", "name",
                   "placeholder", "aria-describedby", "aria-live"}
\* the attributes a renderer gives a text field as their value
TextAttrs == {"alt", "aria-label", "placeholder"}

AttrNames(e) == {a[1] : a \in e.attrs}

\* no element, attribute or executable reference comes of a text field
NothingNew(tree) ==
  \A i \in 1..Len(tree) :
    /\ tree[i].parsed = <<>>
    /\ tree[i].tag \in TagVocabulary
    /\ AttrNames(tree[i]) \subseteq AttrVocabulary

----------------------------------------------------------------------------
(* A function source (SpecSource).  _consumeStream awaits stream(emit) for *)
(* a function source; emit stays callable by the source after the promise  *)
(* it returned has settled, and hands each chunk to parser.feed as before.  *)

SourcePages == {p \in StreamPages : Len(p.sections) <= 1}

\* emit(chunk) by a function source whose promise has settled; the chunk is
\* the text of a whole page, and each behaviour follows one such call
LateEmit(page) ==
  /\ pc \in {"done", "error"}
  /\ lastOp.op = "renderStream"
  /\ LET chunk == Serialize(stream.mode, page) \o <<"\n">>
         dom == Dom(mounted, sectionCount, FALSE)
         d == IF stream.mode = "json"
              THEN StreamingPageParser_feed(parser, dom, chunk, onAction)
              ELSE NDJSONSectionParser_feed(parser, dom, chunk, onAction)
     IN  /\ parser' = d.p
         /\ mounted' = d.dom.mounted
         /\ sectionCount' = d.dom.sectionCount
  /\ lastOp' = [lastOp EXCEPT !.op = "emit"]
  /\ UNCHANGED <<stream, pc, lastClick>>
  /\ UNCHANGED <<options, actionPolicy, allowedActions, onAction, theme, styleEl, nextEl>>
  /\ UNCHANGED <<urlVars, widgetVars, normVars>>

NextSource ==
  \/ \E mode \in StreamModes, page \in SourcePages : StartStream(mode, page)
  \/ \E k \in 1..MaxTextLen : ReadChunk(k)
  \/ EndOfStream
  \/ SourceError
  \/ \E page \in SourcePages : LateEmit(page)

SpecSource == InitStream /\ [][NextSource]_vars

\* C28: once the source of a streaming render has ended or errored,
\* consumption stops and the call appends no further section: neither the
\* step that meets the end or the error nor any later step changes what is
\* mounted.
C28_NoAppendAfterEnd ==
  [][pc' \in {"done", "error"} => mounted' = mounted]_vars

----------------------------------------------------------------------------
(* Malformed fragments in the sections array (SpecFrag): the bracket       *)
(* decoder fed a text whose array holds, in any order, well-formed         *)
(* sections, balanced objects that do not parse, and stray closing braces. *)

MaxFrags == 3

GoodFrag == SerializeSection(Section("hero"))
BadFrag == <<"{", "x", "}">>
StrayBrace == <<"}">>
Frags == {GoodFrag, BadFrag, StrayBrace}

FragText(frags) ==
  <<"{">> \o SectionsKey \o <<":", "[">> \o Join(frags, <<",">>) \o <<"]", "}">>

\* renderStream(stream) up to the first read, for a source that delivers FragText(frags)
StartFrag(frags) ==
  /\ pc = "idle"
  /\ mounted' = <<>>
  /\ sectionCount' = 0
  /\ parser' = NewParser
  /\ stream' = [mode |-> "json", page |-> EmptyPage, rest |-> FragText(frags), frags |-> frags]
  /\ pc' = "reading"
  /\ lastOp' = [op |-> "renderStream", page |-> EmptyPage, threw |-> FALSE]
  /\ lastClick' = NoClick
  /\ UNCHANGED <<options, actionPolicy, allowedActions, onAction, theme, styleEl, nextEl>>
  /\ UNCHANGED <<urlVars, widgetVars, normVars>>

MaxFragTextLen == Len(FragText([i \in 1..MaxFrags |-> GoodFrag]))

NextFrag ==
  \/ \E frags \in SeqsUpTo(Frags, MaxFrags) : StartFrag(frags)
  \/ \E k \in 1..MaxFragTextLen : ReadChunk(k)
  \/ EndOfStream

SpecFrag == InitStream /\ [][NextFrag]_vars

\* the well-formed sections among the fragments, in order
RECURSIVE GoodOnes(_)
GoodOnes(frags) ==
  IF frags = <<>> THEN <<>>
  ELSE (IF Head(frags) = GoodFrag THEN <<"hero">> ELSE <<>>) \o GoodOnes(Tail(frags))

\* C27: the bracket decoder discards a malformed fragment of the sections
\* array (a balanced object that does not parse, a stray closing brace at top
\* level) without an error, and still emits every well-formed top-level
\* object, those after the fragment included.
C27_MalformedSkipped ==
  (pc = "done" /\ stream.mode = "json" /\ "frags" \in DOMAIN stream) =>
    /\ ~lastOp.threw
    /\ TypesOf(mounted) = GoodOnes(stream.frags)

----------------------------------------------------------------------------
(* removeSection (SpecRemove).  The method is declared (removeSection(index *)
(* : number): boolean) and documented ("remove a section by index"); the   *)
(* session's other operations are those of the class.                      *)

RemovePool == {Section("hero"), Section("text"), Section("code")}
RemovePages == {Page("", ss) : ss \in SeqsUpTo(RemovePool, MaxPageLen)}

\* removeSection(index): the mounted sections without the one at index, the
\* section count, and the boolean the call returns
removeSection_last(dom, index) ==
  IF index \in 0..(Len(dom.mounted) - 1)
    THEN [dom |-> Dom(SubSeq(dom.mounted, 1, Len(dom.mounted) - 1), dom.sectionCount - 1, FALSE),
          result |-> TRUE]
    ELSE [dom |-> dom, result |-> FALSE]

removeSection(dom, index) ==
  IF index \in 0..(Len(dom.mounted) - 1)
    THEN [dom |-> Dom([j \in 1..(Len(dom.mounted) - 1) |->
                         IF j <= index THEN dom.mounted[j] ELSE dom.mounted[j + 1]],
                      dom.sectionCount - 1, FALSE),
          result |-> TRUE]
    ELSE [dom |-> dom, result |-> FALSE]

InitRemove == InitSession({o \in DefaultOptionsSet : ~o.onAction})

RemoveSection(index) ==
  /\ LET r == removeSection(Dom(mounted, sectionCount, FALSE), index)
     IN  /\ mounted' = r.dom.mounted
         /\ sectionCount' = r.dom.sectionCount
         /\ widget' = [kind |-> "removed", index |-> index, result |-> r.result]
  /\ lastOp' = [op |-> "removeSection", page |-> EmptyPage, threw |-> FALSE]
  /\ lastClick' = NoClick
  /\ UNCHANGED <<options, actionPolicy, allowedActions, onAction, theme, styleEl, nextEl>>
  /\ UNCHANGED <<streamVars, urlVars, normVars>>

NextRemove ==
  \/ \E page \in RemovePages : Render(page)
  \/ \E index \in -1..MaxPageLen : RemoveSection(index)

SpecRemove == InitRemove /\ [][NextRemove]_vars

----------------------------------------------------------------------------
(* RENDERERS.heading (SpecHeading).  data.level is absent or a number,     *)
(* counted in halves; the rendered level is the number the tag name and    *)
(* the class name are built from ('h' + level), in halves too.             *)

MaxLevel == 30

\* const level = Math.min(Math.max(data.level || 2, 1), 3)
RENDERERS_heading_level(level) ==
  LET given == IF level.kind = "number" /\ level.half # 0 THEN level.half ELSE 2 * 2
  IN  Min(Max(given, 2 * 1), 2 * 3)

HeadingLevels == {NoNumber} \cup {Number(half) : half \in (0 - 2 * MaxLevel)..(2 * MaxLevel)}

InitHeading == InitSession({o \in DefaultOptionsSet : ~o.onAction})

\* render({sections: [{type: 'heading', level}]}); each behaviour follows one render
RenderHeading(level) ==
  /\ widget.kind = "none"
  /\ widget' = [kind |-> "heading", level |-> level, rendered |-> RENDERERS_heading_level(level)]
  /\ mounted' = <<Node("heading", <<>>)>>
  /\ sectionCount' = 1
  /\ lastOp' = [op |-> "render", page |-> EmptyPage, threw |-> FALSE]
  /\ lastClick' = NoClick
  /\ UNCHANGED <<options, actionPolicy, allowedActions, onAction, theme, styleEl, nextEl>>
  /\ UNCHANGED <<streamVars, urlVars, normVars>>

NextHeading == \E level \in HeadingLevels : RenderHeading(level)

SpecHeading == InitHeading /\ [][NextHeading]_vars

\* C30: for every numeric level of a heading section the rendered level is
\* the level clamped to [1,3]: below 1 (0 included) gives 1, above 3 gives 3,
\* and 1, 2, 3 are rendered unchanged.
C30_LevelClamped ==
  (widget.kind = "heading" /\ widget.level.kind = "number") =>
    widget.rendered = (IF widget.level.half < 2 THEN 2
                       ELSE IF widget.level.half > 6 THEN 6
                       ELSE widget.level.half)

----------------------------------------------------------------------------
(* RENDERERS.stack's gap (SpecGap).  data.gap is absent or a number,       *)
(* counted in halves.  The stack's gap style is [kind, n]: kind "var" for  *)
(* 'var(--ap-space-' + gap + ')' with n the gap in halves, kind "rem" for  *)
(* a length (gap * 0.25) + 'rem' with n that length in eighths of a rem.   *)

MaxGap == 30

GapVar(half) == [kind |-> "var", n |-> half]
GapRem(eighths) == [kind |-> "rem", n |-> eighths]

\* const gap = Math.min(Math.max(Number(data.gap || 4), 0), 12);
\* stack.style.gap = 'var(--ap-space-' + gap + ')'; stack.style.gap = (gap * 0.25) + 'rem'
RENDERERS_stack_gap(gap) ==
  LET given == IF gap.kind = "number" /\ gap.half # 0 THEN gap.half ELSE 2 * 4
      clamped == Min(Max(given, 0), 2 * 12)
      first == GapVar(clamped)
      second == GapRem(clamped)
  IN  second

StackGaps == {NoNumber} \cup {Number(half) : half \in (0 - 2 * MaxGap)..(2 * MaxGap)}

InitGap == InitSession({o \in DefaultOptionsSet : ~o.onAction})

\* render({sections: [{type: 'stack', gap}]}); each behaviour follows one render
RenderStack(gap) ==
  /\ widget.kind = "none"
  /\ widget' = [kind |-> "stack", gap |-> gap, style |-> RENDERERS_stack_gap(gap)]
  /\ mounted' = <<Node("stack", <<>>)>>
  /\ sectionCount' = 1
  /\ lastOp' = [op |-> "render", page |-> EmptyPage, threw |-> FALSE]
  /\ lastClick' = NoClick
  /\ UNCHANGED <<options, actionPolicy, allowedActions, onAction, theme, styleEl, nextEl>>
  /\ UNCHANGED <<streamVars, urlVars, normVars>>

NextGap == \E gap \in StackGaps : RenderStack(gap)

SpecGap == InitGap /\ [][NextGap]_vars

\* C31: for every gap given to a stack section, the stack's gap style is a
\* reference var(--ap-space-N) to a design-space variable with N a whole
\* token number, never a raw computed length.
C31_GapUsesSpaceVar ==
  widget.kind = "stack" =>
    /\ widget.style.kind = "var"
    /\ widget.style.n % 2 = 0

----------------------------------------------------------------------------
(* Further properties of the streaming render (SpecStream) *)

\* what the bracket decoder mounts when the whole text arrives as one chunk
OneChunk(text) ==
  StreamingPageParser_feed(NewParser, Dom(<<>>, 0, FALSE), text, onAction).dom.mounted

\* C32: the bracket decoder's output does not depend on chunk boundaries:
\* however the text is split, the sections emitted are those emitted for the
\* text fed as one chunk, the balanced top-level objects of the sections array.
C32_BracketChunkIndependent ==
  (pc = "done" /\ stream.mode = "json") =>
    mounted = OneChunk(Serialize("json", stream.page))

----------------------------------------------------------------------------
(* addSection as a public operation (SpecAdd): render, addSection of one   *)
(* caller-supplied section, clear.  widget holds the section the last      *)
(* addSection handed to renderSection and whether a renderer was reached.  *)

MaxAdds == 2

\* the sections a caller hands to addSection
AddPool == {l[i] : l \in {m \in NormInputs : m # <<>>}, i \in {1}} \cup RemovePool

InitAdd == InitSession({o \in DefaultOptionsSet : ~o.onAction})

\* addSection(sectionData) called by the host
AddSection(data) ==
  /\ Len(mounted) < MaxAdds
  /\ LET dom == addSection(Dom(mounted, sectionCount, FALSE), data, onAction)
     IN  /\ mounted' = dom.mounted
         /\ sectionCount' = dom.sectionCount
         /\ lastOp' = [op |-> "addSection", page |-> EmptyPage, threw |-> dom.threw]
         /\ widget' = [kind |-> "handed", data |-> data,
                       reached |-> renderSection(data).status # "null"]
  /\ lastClick' = NoClick
  /\ UNCHANGED <<options, actionPolicy, allowedActions, onAction, theme, styleEl, nextEl>>
  /\ UNCHANGED <<streamVars, urlVars, normVars>>

NextAdd ==
  \/ \E page \in RemovePages : Render(page)
  \/ \E data \in AddPool : AddSection(data)
  \/ Clear

SpecAdd == InitAdd /\ [][NextAdd]_vars

\* C33: every section a public operation hands to a renderer has first passed
\* through the normalizer: what reaches a renderer is a section the
\* normalizer leaves as it is.
C33_NormalizedBeforeRender ==
  (widget.kind = "handed" /\ widget.reached) =>
    normalizeSections(<<widget.data>>, 0) = <<widget.data>>

\* ---------------------------------------------------------------------------
\* The section cap across operations (SpecCap).  widget counts the sections a
\* running stream has emitted and the sections the host has added, and
\* whether the last addSection was given a node by the dispatch.
\* ---------------------------------------------------------------------------

MaxCapAdds == 2

CapPool == RemovePool \cup {Section("widget"), Section("toString")}

InitCap == InitSession({o \in DefaultOptionsSet : ~o.onAction})

\* render(page) for a page whose section list may be longer than the cap.
RenderMany(sections) ==
  /\ widget.kind = "none"
  /\ LET dom == AddAll(Dom(<<>>, 0, FALSE), normalizeSections(sections, 0), onAction)
     IN  /\ mounted' = dom.mounted
         /\ sectionCount' = dom.sectionCount
         /\ lastOp' = [op |-> "render", page |-> EmptyPage, threw |-> dom.threw]
  /\ widget' = [kind |-> "cap", streaming |-> FALSE, emitted |-> 0, added |-> 0,
                yielded |-> TRUE]
  /\ lastClick' = NoClick
  /\ UNCHANGED <<options, actionPolicy, allowedActions, onAction, theme, styleEl, nextEl>>
  /\ UNCHANGED <<streamVars, urlVars, normVars>>

\* renderStream / renderStreamNDJSON up to the first chunk: clear().
BeginStream ==
  /\ widget.kind = "none"
  /\ mounted' = <<>>
  /\ sectionCount' = 0
  /\ lastOp' = [op |-> "renderStream", page |-> EmptyPage, threw |-> FALSE]
  /\ widget' = [kind |-> "cap", streaming |-> TRUE, emitted |-> 0, added |-> 0,
                yielded |-> TRUE]
  /\ lastClick' = NoClick
  /\ UNCHANGED <<options, actionPolicy, allowedActions, onAction, theme, styleEl, nextEl>>
  /\ UNCHANGED <<streamVars, urlVars, normVars>>

\* The decoder of a running stream hands one valid section to the callback.
EmitSection(section) ==
  /\ widget.kind = "cap"
  /\ widget.streaming
  /\ widget.emitted < maxSections + Over
  /\ LET dom == onSection(Dom(mounted, sectionCount, FALSE), section, onAction)
     IN  /\ mounted' = dom.mounted
         /\ sectionCount' = dom.sectionCount
         /\ lastOp' = [op |-> "onSection", page |-> EmptyPage, threw |-> dom.threw]
  /\ widget' = [widget EXCEPT !.emitted = @ + 1]
  /\ lastClick' = NoClick
  /\ UNCHANGED <<options, actionPolicy, allowedActions, onAction, theme, styleEl, nextEl>>
  /\ UNCHANGED <<streamVars, urlVars, normVars>>

\* addSection(data) by the host after a render.
AddMore(data) ==
  /\ widget.kind = "cap"
  /\ ~widget.streaming
  /\ widget.added < MaxCapAdds
  /\ LET dom == addSection(Dom(mounted, sectionCount, FALSE), data, onAction)
     IN  /\ mounted' = dom.mounted
         /\ sectionCount' = dom.sectionCount
         /\ lastOp' = [op |-> "addSection", page |-> EmptyPage, threw |-> dom.threw]
  /\ widget' = [widget EXCEPT !.added = @ + 1,
                              !.yielded = renderSection(data).status = "node"]
  /\ lastClick' = NoClick
  /\ UNCHANGED <<options, actionPolicy, allowedActions, onAction, theme, styleEl, nextEl>>
  /\ UNCHANGED <<streamVars, urlVars, normVars>>

NextCap ==
  \/ \E sections \in MixedLists : RenderMany(sections)
  \/ BeginStream
  \/ EmitSection(Section("text"))
  \/ \E data \in CapPool : AddMore(data)
  \/ Clear

SpecCap == InitCap /\ [][NextCap]_vars

\* C34: after any sequence of render, stream and addSection operations the
\* number of mounted top-level sections never exceeds maxSections.
C34_MountedCapped == Len(mounted) <= maxSections

\* C37: after any sequence of render, addSection, stream appends and clear
\* the section counter is the number of top-level nodes mounted in the root
\* container.
C37_CounterIsMounted == sectionCount = Len(mounted)

C37_Witness ==
  /\ widget.kind = "cap"
  /\ lastOp.op = "addSection"
  /\ ~widget.yielded
  /\ sectionCount = Len(mounted)
  /\ sectionCount > 0

\* ---------------------------------------------------------------------------
\* Realtime validation of a form (SpecValidate).  The widget is the form
\* closure of SpecForm together with the mode the renderer resolved, the
\* listeners it wired, the last event a control received and the error state
\* shown before that event.
\* ---------------------------------------------------------------------------

FieldEvents == {"input", "change", "blur"}

\* data.validateOn as the description gives it; "" stands for an absent key
ValidateOnInputs == {"", "submit", "change", "blur", "always", "input"}

\* const mode = data.validateOn === 'change' || ... === 'blur' || ... === 'always'
\*   ? data.validateOn : 'submit'
validationMode(validateOn) ==
  IF validateOn \in {"change", "blur", "always"} THEN validateOn ELSE "submit"

\* the events wireRealtimeValidation() listens to on every r.baseInput
wireRealtimeValidation_noBlur(mode) ==
  IF mode = "submit" THEN {}
  ELSE IF mode \in {"change", "always"} THEN {"input", "change"} ELSE {}

wireRealtimeValidation(mode) ==
  IF mode = "submit" THEN {}
  ELSE (IF mode \in {"change", "always"} THEN {"input", "change"} ELSE {})
         \cup (IF mode \in {"blur", "always"} THEN {"blur"} ELSE {})

ValidatedPool ==
  {TextField(Name("a"), TRUE, NoNumber, <<>>),
   TextField(Name("b"), FALSE, Number(4), <<"x">>),
   FormField(Name("c"), "checkbox", TRUE, NoNumber, <<>>)}

ValidatedLists == UNION {[1..n -> ValidatedPool] : n \in 1..MaxFormFields}

\* const handler = () => { const values = collectValues();
\*   const res = validateAll(values); showErrors(res.errorsByName) }
Revalidated(registry, controls) ==
  showErrors(registry, validateAll(registry, collectValues(registry, controls)).errorsByName)

InitValidate == InitSession({o \in DefaultOptionsSet : ~o.onAction})

RenderValidated(fields, validateOn) ==
  RenderWidget(FormSection(fields),
               FormClosure(normalizeSections(<<FormSection(fields)>>, 0)[1])
                 @@ [validateOn |-> validateOn,
                     before |-> <<>>,
                     listeners |-> wireRealtimeValidation(validationMode(validateOn))])

\* The control of registry entry k receives an event: an input event carries
\* the new state of the control, a change or blur event leaves it as it is.
\* Every listener wired for the event runs the handler.
ControlEvent(k, event, value) ==
  /\ widget.kind = "form"
  /\ k \in 1..Len(widget.registry)
  /\ value.kind = (IF widget.registry[k].field.ftype = "checkbox" THEN "boolean" ELSE "string")
  /\ IF event = "input" THEN widget.controls[k] # value ELSE widget.controls[k] = value
  /\ LET controls == [widget.controls EXCEPT ![k] = value]
     IN  widget' = [widget EXCEPT
                      !.controls = controls,
                      !.errorNodes = IF event \in widget.listeners
                                       THEN Revalidated(widget.registry, controls)
                                       ELSE @,
                      !.before = widget.errorNodes,
                      !.last = event, !.res = NoResult, !.calls = <<>>]
  /\ UNCHANGED <<sessionVars, streamVars, urlVars, normVars>>

NextValidate ==
  \/ \E fields \in ValidatedLists, validateOn \in ValidateOnInputs :
       RenderValidated(fields, validateOn)
  \/ \E k \in 1..MaxFormFields, event \in FieldEvents, value \in ControlValues :
       ControlEvent(k, event, value)
  \/ FormSubmit

SpecValidate == InitValidate /\ [][NextValidate]_vars

\* the error state the handler would show for the controls as they are
FreshErrors == Revalidated(widget.registry, widget.controls)

\* C35: the visible error state follows the validation trigger mode.  With
\* validateOn "submit", absent or unrecognized, an input, change or blur
\* event leaves every field's error state as it was; with "change" an input
\* or change event re-validates, with "blur" a blur event does, and with
\* "always" all three do.
C35_ValidationTrigger ==
  (widget.kind = "form" /\ widget.last \in FieldEvents) =>
    /\ widget.validateOn \notin {"change", "blur", "always"} =>
         widget.errorNodes = widget.before
    /\ (widget.validateOn \in {"change", "always"} /\ widget.last \in {"input", "change"}) =>
         widget.errorNodes = FreshErrors
    /\ (widget.validateOn \in {"blur", "always"} /\ widget.last = "blur") =>
         widget.errorNodes = FreshErrors

C35_Witness ==
  /\ widget.kind = "form"
  /\ widget.validateOn = "always"
  /\ widget.last = "blur"
  /\ widget.errorNodes = FreshErrors
  /\ \E k \in 1..Len(widget.registry) : widget.errorNodes[k].display = "block"
  /\ \E k \in 1..Len(widget.registry) : widget.controls[k] # InitialControl(widget.registry[k].field)

\* ---------------------------------------------------------------------------
\* The element ids of a FAQ (SpecFaqId).  An item id is absent or a short
\* text; the widget keeps, per item, the id and the ARIA reference of the
\* question button and of the answer region.
\* ---------------------------------------------------------------------------

MaxIdItems == 2
MaxIdLen == 2

maxIdLength == 80

IdAlphabet == {"a", " ", "#"}

IdChars == AlphaNum \cup {"-", "_", ":"}

NoId == [given |-> FALSE, text |-> <<>>]
Id(text) == [given |-> TRUE, text |-> text]

IdInputs == {NoId} \cup {Id(t) : t \in UNION {[1..n -> IdAlphabet] : n \in 0..MaxIdLen}}

IdLists == UNION {[1..n -> IdInputs] : n \in 1..MaxIdItems}

\* safeId(raw, fallback): base.trim().slice(0, 80).replace(/[^a-zA-Z0-9\-_:]/g, '-'),
\* or the fallback when nothing is left
safeId(raw, fallback) ==
  LET base == IF raw.given THEN raw.text ELSE <<>>
      cut == Slice(Trim(base), maxIdLength)
      cleaned == [i \in 1..Len(cut) |-> IF cut[i] \in IdChars THEN cut[i] ELSE "-"]
  IN  IF cleaned # <<>> THEN cleaned ELSE fallback

\* RENDERERS.faq, per item: qId, aId and the attributes that carry them
RENDERERS_faq_ids(ids) ==
  [k \in 1..Len(ids) |->
     LET index == ToString(k - 1)
         qId == safeId(ids[k], <<"f", "a", "q", "-", "q", "-", index>>)
         aId == safeId(ids[k], <<"f", "a", "q", "-", "a", "-", index>>)
     IN  [button |-> [id |-> qId, ariaControls |-> aId],
          region |-> [id |-> aId, ariaLabelledby |-> qId]]]

InitFaqId == InitSession({o \in DefaultOptionsSet : ~o.onAction})

RenderFaqIds(ids) ==
  /\ widget.kind = "none"
  /\ widget' = [kind |-> "faqIds", input |-> ids, items |-> RENDERERS_faq_ids(ids)]
  /\ mounted' = <<Node("faq", <<>>)>>
  /\ sectionCount' = 1
  /\ lastOp' = [op |-> "render", page |-> EmptyPage, threw |-> FALSE]
  /\ lastClick' = NoClick
  /\ UNCHANGED <<options, actionPolicy, allowedActions, onAction, theme, styleEl, nextEl>>
  /\ UNCHANGED <<streamVars, urlVars, normVars>>

NextFaqId == \E ids \in IdLists : RenderFaqIds(ids)

SpecFaqId == InitFaqId /\ [][NextFaqId]_vars

\* C36: in a rendered FAQ every item's question button and answer region
\* have different ids, the button's aria-controls is the region's id, the
\* region's aria-labelledby is the button's id, and no two of the FAQ's
\* elements have the same id.
C36_FaqIdsDistinct ==
  widget.kind = "faqIds" =>
    LET items == widget.items
        n == Len(items)
    IN  /\ \A k \in 1..n :
             /\ items[k].button.id # items[k].region.id
             /\ items[k].button.ariaControls = items[k].region.id
             /\ items[k].region.ariaLabelledby = items[k].button.id
        /\ \A j, k \in 1..n :
             j # k => {items[j].button.id, items[j].region.id}
                        \cap {items[k].button.id, items[k].region.id} = {}

\* ---------------------------------------------------------------------------
\* Further properties of the action gate (SpecAction)
\* ---------------------------------------------------------------------------

\* C38: one click on one element, nested or not, the copy control of a code
\* block included, invokes the host callback at most once.
C38_OneCallPerClick == lastClick.clicked => Len(lastClick.calls) <= 1

====
